---- MODULE Spec2Model ----
(***************************************************************************)
(* typedoc-pkg: resolution of `package.json` export conditions to entry    *)
(* points (ExportMapSupport.create / PackageJson), the name / README       *)
(* mapping (ExportMapSupport.processMapping / PkgTypeDocMapping) and the   *)
(* invocation that drives them (generateDocs / processConfig /            *)
(* processPath).                                                           *)
(*                                                                         *)
(* Strings are sequences of one-character strings, so that the path,      *)
(* regular-expression and glob operations of the code are computed and     *)
(* not assumed.                                                            *)
(***************************************************************************)
EXTENDS Integers, Sequences, FiniteSets, TLC

VARIABLES
    files,          \* file system: the set of absolute paths that are files
    packages,       \* file system: directory -> parsed package.json (or NoPackage)
    configs,        \* generateDocs(configs): the list of GenerateConfig objects
    cfgIdx,         \* generateDocs: index of the config of the current loop turn
    configCopy,     \* processConfig: `config`, the shallow copy it validates and reads
    pc,             \* position in generateDocs / processConfig / processPath
    cwd,            \* process.cwd()
    pathIdx,        \* processPath: index of the next input path
    allEntryPoints, \* processPath: Set of entry points, in insertion order
    allPackages,    \* processPath: PackageJson instances, in input order
    pkgIdx,         \* processPath: index of the next package to map
    pkgConfig,      \* processConfig: the PkgTypeDocConfig being built
    origCWD,        \* generateDocs: the working directory saved before processConfig
    basepath,       \* PkgTypeDocMapping.#basepath (static)
    log,            \* warnings / errors logged, in order
    mappingCalls,   \* arguments of every PkgTypeDocMapping.addMapping call
    typedocCalls,   \* argument of every generateTypedoc call
    optionsDoc,     \* createTypedocOptions: the options handed to TypeDoc, per call
    outcome         \* per config: how its loop turn ended

vars == <<files, packages, configs, cfgIdx, configCopy, pc, cwd, pathIdx,
          allEntryPoints, allPackages, pkgIdx, pkgConfig, origCWD, basepath, log,
          mappingCalls, typedocCalls, optionsDoc, outcome>>

(***************************************************************************)
(* Strings                                                                 *)
(***************************************************************************)
SL == <<"/">>
DOT == <<".">>
STAR == <<"*">>

S_r == <<"r">>
S_a == <<"a">>
S_b == <<"b">>
S_c == <<"c">>
S_pa == <<"p", "a">>
S_pb == <<"p", "b">>
S_src == <<"s", "r", "c">>
S_sub == <<"s", "u", "b">>
S_feat == <<"f", "e", "a", "t">>
S_index == <<"i", "n", "d", "e", "x">>
S_main == <<"m", "a", "i", "n">>
S_dts == <<".", "d", ".", "t", "s">>
S_dmts == <<".", "d", ".", "m", "t", "s">>
S_dcts == <<".", "d", ".", "c", "t", "s">>
S_js == <<".", "j", "s">>
S_mjs == <<".", "m", "j", "s">>
S_ts == <<".", "t", "s">>
S_mts == <<".", "m", "t", "s">>
S_readme == <<"R", "E", "A", "D", "M", "E", ".", "m", "d">>
S_packagejson == <<"p", "a", "c", "k", "a", "g", "e", ".", "j", "s", "o", "n">>
S_tsconfig == <<"t", "s", "c", "o", "n", "f", "i", "g", ".", "j", "s", "o", "n">>
S_typedoc == <<"t", "y", "p", "e", "d", "o", "c", ".", "j", "s", "o", "n">>
S_malformed == <<"b", "a", "d", ".", "j", "s", "o", "n">>
S_types == <<"t", "y", "p", "e", "s">>
S_import == <<"i", "m", "p", "o", "r", "t">>
S_default == <<"d", "e", "f", "a", "u", "l", "t">>
S_require == <<"r", "e", "q", "u", "i", "r", "e">>
S_undefined == <<"u", "n", "d", "e", "f", "i", "n", "e", "d">>
S_docs == <<"d", "o", "c", "s">>
S_info == <<"i", "n", "f", "o">>
S_api == <<"a", "p", "i">>
S_site == <<"s", "i", "t", "e">>
S_dom == <<"d", "o", "m">>
S_es == <<"e", "s">>
S_worker == <<"w", "o", "r", "k", "e", "r">>
S_tsLinks == <<"t", "s", "-", "l", "i", "n", "k", "s">>

\* String.prototype.endsWith / startsWith / includes.
EndsWith(s, suf) ==
    /\ Len(s) >= Len(suf)
    /\ SubSeq(s, Len(s) - Len(suf) + 1, Len(s)) = suf

StartsWith(s, pre) ==
    /\ Len(s) >= Len(pre)
    /\ SubSeq(s, 1, Len(pre)) = pre

Includes(s, ch) == \E i \in 1..Len(s) : s[i] = ch

\* String.prototype.indexOf / lastIndexOf of one character; 0 when absent.
IndexOf(s, ch) ==
    IF Includes(s, ch)
    THEN CHOOSE i \in 1..Len(s) : s[i] = ch /\ \A j \in 1..(i - 1) : s[j] # ch
    ELSE 0

LastIndexOf(s, ch) ==
    IF Includes(s, ch)
    THEN CHOOSE i \in 1..Len(s) : s[i] = ch /\ \A j \in (i + 1)..Len(s) : s[j] # ch
    ELSE 0

\* String.prototype.split(ch): the pieces between the occurrences of ch.
RECURSIVE Split(_, _)
Split(s, ch) ==
    LET CutAt(i) == <<SubSeq(s, 1, i - 1)>> \o Split(SubSeq(s, i + 1, Len(s)), ch)
    IN  IF ~Includes(s, ch) THEN <<s>> ELSE CutAt(IndexOf(s, ch))

\* Array.prototype.join(sep).
RECURSIVE Join(_, _)
Join(parts, sep) ==
    IF Len(parts) = 0 THEN <<>>
    ELSE IF Len(parts) = 1 THEN parts[1]
    ELSE parts[1] \o sep \o Join(Tail(parts), sep)

\* String.prototype.replaceAll('*', by).
RECURSIVE ReplaceAllStar(_, _)
ReplaceAllStar(s, by) ==
    IF Len(s) = 0 THEN <<>>
    ELSE (IF Head(s) = "*" THEN by ELSE <<Head(s)>>) \o ReplaceAllStar(Tail(s), by)

(***************************************************************************)
(* upath (posix path functions of Node)                                    *)
(***************************************************************************)
\* The segment walk of path.normalize: "" and "." are dropped, ".." removes the
\* segment before it (kept in a relative path that has none left to remove).
RECURSIVE NormalizeSegments(_, _, _)
NormalizeSegments(segs, acc, isAbsolute) ==
    IF Len(segs) = 0 THEN acc
    ELSE LET s == Head(segs)
             rest == Tail(segs)
         IN  IF s = <<>> \/ s = DOT THEN NormalizeSegments(rest, acc, isAbsolute)
             ELSE IF s = <<".", ".">>
                  THEN IF Len(acc) > 0 /\ acc[Len(acc)] # <<".", ".">>
                       THEN NormalizeSegments(rest, SubSeq(acc, 1, Len(acc) - 1), isAbsolute)
                       ELSE IF isAbsolute
                            THEN NormalizeSegments(rest, acc, isAbsolute)
                            ELSE NormalizeSegments(rest, Append(acc, s), isAbsolute)
                  ELSE NormalizeSegments(rest, Append(acc, s), isAbsolute)

\* path.normalize(p).
PathNormalize(p) ==
    LET Finish(isAbsolute, body, trailing) ==
            IF isAbsolute THEN SL \o body \o (IF Len(body) > 0 THEN trailing ELSE <<>>)
            ELSE IF Len(body) = 0 THEN DOT
            ELSE body \o trailing
    IN  Finish(StartsWith(p, SL),
               Join(NormalizeSegments(Split(p, "/"), <<>>, StartsWith(p, SL)), SL),
               IF EndsWith(p, SL) THEN SL ELSE <<>>)

\* path.resolve(p) in working directory dir: absolute, normalized, no trailing slash.
PathResolve(dir, p) ==
    LET full == IF StartsWith(p, SL) THEN p ELSE dir \o SL \o p
    IN  SL \o Join(NormalizeSegments(Split(full, "/"), <<>>, TRUE), SL)

\* path.join(a, b) without the normalization of the joined path.
PathJoinNotNormalized(a, b) == a \o SL \o b

\* path.join(a, b).
PathJoin(a, b) ==
    IF Len(a) = 0 /\ Len(b) = 0 THEN DOT
    ELSE PathNormalize(IF Len(a) = 0 THEN b
                       ELSE IF Len(b) = 0 THEN a
                       ELSE a \o SL \o b)

\* path.dirname(p), for a path without trailing slash.
PathDirname(p) ==
    LET UpTo(i) == IF i = 0 THEN DOT
                   ELSE IF i = 1 THEN SL
                   ELSE SubSeq(p, 1, i - 1)
    IN  UpTo(LastIndexOf(p, "/"))

\* path.basename(p), for a path without trailing slash.
PathBasename(p) == SubSeq(p, LastIndexOf(p, "/") + 1, Len(p))

\* Length of the longest common prefix of two segment lists.
RECURSIVE CommonLen(_, _)
CommonLen(x, y) ==
    IF Len(x) = 0 \/ Len(y) = 0 \/ Head(x) # Head(y) THEN 0
    ELSE 1 + CommonLen(Tail(x), Tail(y))

\* path.relative(from, to) of two absolute normalized paths.
PathRelative(from, to) ==
    LET Build(f, t, n) ==
            Join([i \in 1..(Len(f) - n) |-> <<".", ".">>] \o SubSeq(t, n + 1, Len(t)), SL)
        Common(f, t) == Build(f, t, CommonLen(f, t))
    IN  Common(NormalizeSegments(Split(from, "/"), <<>>, TRUE),
               NormalizeSegments(Split(to, "/"), <<>>, TRUE))

\* getRelativePath({ basepath, filepath }) of @typhonjs-utils/file-util.
getRelativePath(base, filepath) == PathRelative(base, filepath)

(***************************************************************************)
(* File system                                                             *)
(***************************************************************************)
Root == SL \o S_r
DirA == Root \o SL \o S_a
DirB == Root \o SL \o S_b
DirC == Root \o SL \o S_c

\* Relative paths used as export targets and legacy `types` / `typings` values.
T_srcIndex == DOT \o SL \o S_src \o SL \o S_index \o S_dts
T_subIndex == DOT \o SL \o S_src \o SL \o S_sub \o SL \o S_index \o S_dts
T_featStar == DOT \o SL \o S_src \o SL \o S_feat \o SL \o STAR \o S_dts
T_indexJs == DOT \o SL \o S_index \o S_js
T_rootSub == DOT \o SL \o S_sub \o S_dts
T_featA == DOT \o SL \o S_src \o SL \o S_feat \o SL \o S_a \o S_dts
T_featB == DOT \o SL \o S_src \o SL \o S_feat \o SL \o S_b \o S_dts
T_readme == DOT \o SL \o S_readme
T_featReadme == DOT \o SL \o S_src \o SL \o S_feat \o SL \o S_readme
T_packagejson == DOT \o SL \o S_packagejson
T_main == DOT \o SL \o S_main \o S_ts
\* A directory whose name holds characters that are special in a regular expression.
S_cpp == <<"c", "+", "+">>
T_plusStar == DOT \o SL \o S_src \o SL \o S_cpp \o SL \o STAR \o S_dts
T_plusA == DOT \o SL \o S_src \o SL \o S_cpp \o SL \o S_a \o S_dts

\* Sub-path keys of `exports`.
K_root == DOT
K_sub == DOT \o SL \o S_sub
K_featStar == DOT \o SL \o S_feat \o SL \o STAR

\* Every path that can be a file, in the order the directory walk of glob meets them.
AllFiles ==
    << PathResolve(DirA, T_packagejson), PathResolve(DirA, T_readme),
       PathResolve(DirA, T_indexJs), PathResolve(DirA, T_rootSub),
       PathResolve(DirA, T_srcIndex), PathResolve(DirA, T_subIndex),
       PathResolve(DirA, T_featReadme), PathResolve(DirA, T_featA),
       PathResolve(DirA, T_featB),
       PathResolve(DirB, T_packagejson), PathResolve(DirB, T_readme),
       PathResolve(DirB, T_srcIndex),
       PathResolve(DirC, T_main), PathResolve(DirA, T_plusA) >>

\* Option files next to the packages: a tsconfig.json and a typedoc.json that load,
\* and a file that is not JSON.
T_tsconfig == DOT \o SL \o S_tsconfig
T_typedoc == DOT \o SL \o S_typedoc
T_malformed == DOT \o SL \o S_malformed

\* A typedoc.json that sets `out` to "api".
T_typedocOut == DOT \o SL \o S_api \o DOT \o S_typedoc

OptionFiles ==
    {PathResolve(Root, T_tsconfig), PathResolve(Root, T_typedoc),
     PathResolve(Root, T_malformed)}

MalformedFiles == {PathResolve(Root, T_malformed)}

AllFileSet == {AllFiles[i] : i \in 1..Len(AllFiles)}

\* The directories of the file system; they exist in every run.
Directories ==
    { SL, Root, DirA, DirB, DirC,
      DirA \o SL \o S_src, DirA \o SL \o S_src \o SL \o S_sub,
      DirA \o SL \o S_src \o SL \o S_feat, DirB \o SL \o S_src }

\* isFile / isDirectory of @typhonjs-utils/file-util, for the process in working
\* directory wd on file system fs.
isFile(wd, fs, p) == PathResolve(wd, p) \in fs

isDirectory(wd, p) == PathResolve(wd, p) \in Directories

(***************************************************************************)
(* validation.js: file type predicates                                     *)
(***************************************************************************)
\* /\.(js|mjs|ts|mts)$/
regexAllowedFiles(p) ==
    EndsWith(p, S_js) \/ EndsWith(p, S_mjs) \/ EndsWith(p, S_ts) \/ EndsWith(p, S_mts)

\* A test of the extension that takes every script file for a declaration file.
regexIsDTSFileAnyScript(p) == EndsWith(p, S_ts) \/ EndsWith(p, S_js)

\* /\.d\.(cts|ts|mts)$/
regexIsDTSFile(p) ==
    EndsWith(p, S_dcts) \/ EndsWith(p, S_dts) \/ EndsWith(p, S_dmts)

isDTSFile(wd, fs, p) == isFile(wd, fs, p) /\ regexIsDTSFile(p)

(***************************************************************************)
(* is-glob and glob                                                        *)
(***************************************************************************)
\* isGlob(str): the strings of the model hold no glob character other than `*`.
isGlob(s) == Includes(s, "*")

\* One path segment against one pattern segment: `*` stands for any run of
\* characters of the segment.
RECURSIVE WildMatch(_, _)
WildMatch(pat, s) ==
    IF Len(pat) = 0 THEN Len(s) = 0
    ELSE IF Head(pat) = "*"
         THEN WildMatch(Tail(pat), s) \/ (Len(s) > 0 /\ WildMatch(pat, Tail(s)))
         ELSE Len(s) > 0 /\ Head(pat) = Head(s) /\ WildMatch(Tail(pat), Tail(s))

\* A segment that starts with a dot is matched only by a pattern that starts with one.
SegmentMatch(pat, s) ==
    /\ Len(s) > 0
    /\ (Head(s) = "." => (Len(pat) > 0 /\ Head(pat) = "."))
    /\ WildMatch(pat, s)

SegmentsMatch(pats, segs) ==
    /\ Len(pats) = Len(segs)
    /\ \A i \in 1..Len(pats) : SegmentMatch(pats[i], segs[i])

\* globSync(pattern) in working directory wd: the matching files, relative to wd and
\* without a leading "./".
globSync(wd, fs, pattern) ==
    LET Walk(pats) ==
            LET below(f) == SubSeq(f, Len(wd) + 2, Len(f))
                hit(f) == /\ f \in fs
                          /\ StartsWith(f, wd \o SL)
                          /\ SegmentsMatch(pats, Split(below(f), "/"))
                Relative(hits) == [i \in 1..Len(hits) |-> below(hits[i])]
            IN  Relative(SelectSeq(AllFiles, hit))
    IN  Walk(NormalizeSegments(Split(pattern, "/"), <<>>, FALSE))

(***************************************************************************)
(* resolve.exports                                                         *)
(***************************************************************************)
Undefined == <<>>

\* Values of an exports map: a string, null, or an object of conditions whose values
\* are strings.
StrTarget(p) == [kind |-> "str", path |-> p, conds |-> <<>>]
NullTarget == [kind |-> "null", path |-> <<>>, conds |-> <<>>]
CondTarget(cs) == [kind |-> "cond", path |-> <<>>, conds |-> cs]

\* The condition named by a key of an object of conditions.
ConditionOfKey(key) ==
    IF key = S_types THEN "types"
    ELSE IF key = S_import THEN "import"
    ELSE IF key = S_default THEN "default"
    ELSE IF key = S_require THEN "require"
    ELSE "other"

\* package.json `exports`: absent, a string, or an object (its keys in order).
NoExports == [kind |-> "none", path |-> <<>>, entries |-> <<>>]
StringExports(p) == [kind |-> "string", path |-> p, entries |-> <<>>]
ObjectExports(es) == [kind |-> "object", path |-> <<>>, entries |-> es]

\* conditions(options): `default`, the requested ones, and `import` and `node`, which
\* the resolver adds unless `unsafe`, `require` or `browser` is set.
ResolveConditions(requested) == {"default", "import", "node"} \cup requested

\* toEntry(name, ident).
toEntry(name, ident) ==
    IF ident = name \/ ident = DOT THEN DOT
    ELSE LET root == name \o SL
             output == IF StartsWith(ident, root)
                       THEN SubSeq(ident, Len(root) + 1, Len(ident))
                       ELSE ident
         IN  IF StartsWith(output, DOT \o SL) THEN output ELSE DOT \o SL \o output

\* loop(m, keys): the first condition of the object that is in the set decides.
ResolveLoop(m, keys) ==
    LET First(known) ==
            IF known = {} THEN Undefined
            ELSE m.conds[CHOOSE i \in known : \A j \in known : i <= j].path
    IN  IF m.kind = "str" THEN m.path
        ELSE IF m.kind = "null" THEN Undefined
        ELSE First({i \in 1..Len(m.conds) : m.conds[i].cond \in keys})

\* exports(pkg, input, { conditions }): the resolved target, Undefined when the
\* resolver returns nothing or throws. An object whose first key does not start
\* with "." is an object of conditions for ".". The entry asked for is a key of the
\* map, or the map has the one key ".", so the pattern search of walk() never
\* finds another key.
ResolveExports(data, input, requested) ==
    LET ex == data.exports
        sugar == ex.kind = "object" /\ Len(ex.entries) > 0 /\ ex.entries[1].key[1] # "."
        Walk(mapping, entry) ==
            LET Found(found) ==
                    IF ex.kind = "none" \/ found = {} THEN Undefined
                    ELSE ResolveLoop(mapping[CHOOSE i \in found : TRUE].target,
                                     ResolveConditions(requested))
            IN  Found({i \in 1..Len(mapping) : mapping[i].key = entry})
    IN  Walk(IF ex.kind = "string" THEN <<[key |-> DOT, target |-> StrTarget(ex.path)]>>
             ELSE IF sugar
                  THEN <<[key |-> DOT,
                          target |-> CondTarget([i \in 1..Len(ex.entries) |->
                              [cond |-> ConditionOfKey(ex.entries[i].key),
                               path |-> ex.entries[i].target.path]])]>>
                  ELSE ex.entries,
             toEntry(data.name, input))

(***************************************************************************)
(* ExportMapSupport.create                                                 *)
(***************************************************************************)
\* An ExportMap is a Map: here the sequence of its entries in insertion order, each
\* with its key `filepath`.
MapHas(map, filepath) == \E i \in 1..Len(map) : map[i].filepath = filepath

\* Map.prototype.set: a present key keeps its place and takes the new value.
MapSet(map, e) ==
    IF MapHas(map, e.filepath)
    THEN [i \in 1..Len(map) |-> IF map[i].filepath = e.filepath THEN e ELSE map[i]]
    ELSE Append(map, e)

MapKeys(map) == [i \in 1..Len(map) |-> map[i].filepath]

Warning(kind, exportPath, path) ==
    [level |-> "warn", kind |-> kind, exportPath |-> exportPath, path |-> path]

\* String(n) for an index below one hundred.
IndexKey(n) ==
    LET Digit(d) == <<<<"0", "1", "2", "3", "4", "5", "6", "7", "8", "9">>[d + 1]>>
    IN  IF n < 10 THEN Digit(n) ELSE Digit(n \div 10) \o Digit(n % 10)

\* Keys of `for (const exportPath in packageJson.exports)`: the keys of an object in
\* order; the indices of the characters of a string.
ExportKeys(ex) ==
    IF ex.kind = "string" THEN [i \in 1..Len(ex.path) |-> IndexKey(i - 1)]
    ELSE [i \in 1..Len(ex.entries) |-> ex.entries[i].key]

\* processExport that sets the entry whether or not the map holds the path.
processExportTypesLastWins(acc, wd, fs, pEntryPath, pExportPath, pGlobEntryPath) ==
    IF ~isDTSFile(wd, fs, pEntryPath)
    THEN [acc EXCEPT !.log = Append(@, Warning("notDTSFile", pExportPath, pEntryPath))]
    ELSE [acc EXCEPT !.map = MapSet(@, [filepath |-> PathResolve(wd, pEntryPath),
                                        entryPath |-> pEntryPath,
                                        exportPath |-> pExportPath,
                                        globEntryPath |-> pGlobEntryPath])]

\* processExport of #createExportMapTypes; acc holds the map and the warnings logged.
processExportTypes(acc, wd, fs, pEntryPath, pExportPath, pGlobEntryPath) ==
    LET Enter(filepath) ==
            IF MapHas(acc.map, filepath) THEN acc
            ELSE [acc EXCEPT !.map = MapSet(@, [filepath |-> filepath,
                                                entryPath |-> pEntryPath,
                                                exportPath |-> pExportPath,
                                                globEntryPath |-> pGlobEntryPath])]
    IN  IF ~isDTSFile(wd, fs, pEntryPath)
        THEN [acc EXCEPT !.log = Append(@, Warning("notDTSFile", pExportPath, pEntryPath))]
        ELSE Enter(PathResolve(wd, pEntryPath))

\* processExport that enters a path without the test that it is a file.
processExportConditionUnchecked(acc, wd, fs, pEntryPath, pExportPath, pGlobEntryPath) ==
    IF MapHas(acc.map, PathResolve(wd, pEntryPath)) THEN acc
    ELSE [acc EXCEPT !.map = MapSet(@, [filepath |-> PathResolve(wd, pEntryPath),
                                        entryPath |-> pEntryPath,
                                        exportPath |-> pExportPath,
                                        globEntryPath |-> pGlobEntryPath])]

\* processExport of #createExportMapCondition.
processExportCondition(acc, wd, fs, pEntryPath, pExportPath, pGlobEntryPath) ==
    LET Enter(filepath) ==
            IF MapHas(acc.map, filepath) THEN acc
            ELSE [acc EXCEPT !.map = MapSet(@, [filepath |-> filepath,
                                                entryPath |-> pEntryPath,
                                                exportPath |-> pExportPath,
                                                globEntryPath |-> pGlobEntryPath])]
    IN  IF ~isFile(wd, fs, pEntryPath)
        THEN [acc EXCEPT !.log = Append(@, Warning("notFile", pExportPath, pEntryPath))]
        ELSE Enter(PathResolve(wd, pEntryPath))

\* The loop over the glob matches that records each match as its own pattern.
RECURSIVE GlobLoopTypesMatchAsPattern(_, _, _, _, _, _)
GlobLoopTypesMatchAsPattern(acc, wd, fs, globEntryPaths, exportPath, entryPath) ==
    IF Len(globEntryPaths) = 0 THEN acc
    ELSE GlobLoopTypesMatchAsPattern(
             processExportTypes(acc, wd, fs, Head(globEntryPaths), exportPath,
                                Head(globEntryPaths)),
             wd, fs, Tail(globEntryPaths), exportPath, entryPath)

\* The loop over the glob matches of one key (types).
RECURSIVE GlobLoopTypes(_, _, _, _, _, _)
GlobLoopTypes(acc, wd, fs, globEntryPaths, exportPath, entryPath) ==
    IF Len(globEntryPaths) = 0 THEN acc
    ELSE GlobLoopTypes(
             processExportTypes(acc, wd, fs, Head(globEntryPaths), exportPath, entryPath),
             wd, fs, Tail(globEntryPaths), exportPath, entryPath)

\* The loop over the glob matches of one key (any other condition).
RECURSIVE GlobLoopCondition(_, _, _, _, _, _)
GlobLoopCondition(acc, wd, fs, globEntryPaths, exportPath, entryPath) ==
    IF Len(globEntryPaths) = 0 THEN acc
    ELSE GlobLoopCondition(
             processExportCondition(acc, wd, fs, Head(globEntryPaths), exportPath, entryPath),
             wd, fs, Tail(globEntryPaths), exportPath, entryPath)

\* One turn of the loop over the keys of #createExportMapTypes.
ExportKeyTypes(acc, wd, fs, data, exportPath) ==
    LET Turn(entryPath) ==
            IF entryPath = Undefined THEN acc
            ELSE IF ~regexIsDTSFile(entryPath) THEN acc
            ELSE IF isGlob(exportPath) \/ isGlob(entryPath)
                 THEN GlobLoopTypes(acc, wd, fs, globSync(wd, fs, entryPath), exportPath,
                                    entryPath)
                 ELSE processExportTypes(acc, wd, fs, entryPath, exportPath, Undefined)
    IN  Turn(ResolveExports(data, exportPath, {"types"}))

\* One turn of the loop over the keys of #createExportMapCondition.
ExportKeyCondition(acc, wd, fs, data, exportCondition, exportPath) ==
    LET Turn(entryPath) ==
            IF entryPath = Undefined THEN acc
            ELSE IF ~regexAllowedFiles(entryPath) THEN acc
            ELSE IF isGlob(exportPath) \/ isGlob(entryPath)
                 THEN GlobLoopCondition(acc, wd, fs, globSync(wd, fs, entryPath), exportPath,
                                        entryPath)
                 ELSE processExportCondition(acc, wd, fs, entryPath, exportPath, Undefined)
    IN  Turn(ResolveExports(data, exportPath, {exportCondition}))

RECURSIVE KeyLoopTypes(_, _, _, _, _)
KeyLoopTypes(acc, wd, fs, data, keys) ==
    IF Len(keys) = 0 THEN acc
    ELSE KeyLoopTypes(ExportKeyTypes(acc, wd, fs, data, Head(keys)), wd, fs, data, Tail(keys))

RECURSIVE KeyLoopCondition(_, _, _, _, _, _)
KeyLoopCondition(acc, wd, fs, data, exportCondition, keys) ==
    IF Len(keys) = 0 THEN acc
    ELSE KeyLoopCondition(ExportKeyCondition(acc, wd, fs, data, exportCondition, Head(keys)),
                          wd, fs, data, exportCondition, Tail(keys))

EmptyAcc == [map |-> <<>>, log |-> <<>>]

\* ExportMapSupport.#createExportMapTypes: the map and the warnings logged.
createExportMapTypes(wd, fs, data) ==
    KeyLoopTypes(EmptyAcc, wd, fs, data, ExportKeys(data.exports))

\* ExportMapSupport.#createExportMapCondition.
createExportMapCondition(wd, fs, data, exportCondition) ==
    KeyLoopCondition(EmptyAcc, wd, fs, data, exportCondition, ExportKeys(data.exports))

\* ExportMapSupport.create(packageJson).
create(wd, fs, data, exportCondition) ==
    IF exportCondition = "types" THEN createExportMapTypes(wd, fs, data)
    ELSE createExportMapCondition(wd, fs, data, exportCondition)

(***************************************************************************)
(* PackageJson                                                             *)
(***************************************************************************)
\* Set.prototype.add on a Set kept as the sequence of its members in insertion order.
SetAdd(seq, x) == IF \E i \in 1..Len(seq) : seq[i] = x THEN seq ELSE Append(seq, x)

RECURSIVE SetAddAll(_, _)
SetAddAll(seq, xs) ==
    IF Len(xs) = 0 THEN seq ELSE SetAddAll(SetAdd(seq, Head(xs)), Tail(xs))

\* #process that reads `typings` before `types`.
processPreferringTypings(wd, fs, data, exportCondition, exportMap) ==
    LET Field(p, kind) ==
            IF ~isDTSFile(wd, fs, p)
            THEN [entryPoints |-> <<>>, log |-> <<Warning(kind, Undefined, p)>>]
            ELSE [entryPoints |-> <<PathResolve(wd, p)>>, log |-> <<>>]
    IN  IF Len(exportMap) > 0 THEN [entryPoints |-> MapKeys(exportMap), log |-> <<>>]
        ELSE IF exportCondition # "types" THEN [entryPoints |-> <<>>, log |-> <<>>]
        ELSE IF data.typings # Undefined THEN Field(data.typings, "typingsNotDTSFile")
        ELSE IF data.types # Undefined THEN Field(data.types, "typesNotDTSFile")
        ELSE [entryPoints |-> <<>>, log |-> <<>>]

\* #process that reads `typings` when `types` names no declaration file.
processFallingBackToTypings(wd, fs, data, exportCondition, exportMap) ==
    LET Field(p, kind) ==
            IF ~isDTSFile(wd, fs, p)
            THEN [entryPoints |-> <<>>, log |-> <<Warning(kind, Undefined, p)>>]
            ELSE [entryPoints |-> <<PathResolve(wd, p)>>, log |-> <<>>]
    IN  IF Len(exportMap) > 0 THEN [entryPoints |-> MapKeys(exportMap), log |-> <<>>]
        ELSE IF exportCondition # "types" THEN [entryPoints |-> <<>>, log |-> <<>>]
        ELSE IF data.types # Undefined /\ isDTSFile(wd, fs, data.types)
             THEN Field(data.types, "typesNotDTSFile")
        ELSE IF data.typings # Undefined THEN Field(data.typings, "typingsNotDTSFile")
        ELSE IF data.types # Undefined THEN Field(data.types, "typesNotDTSFile")
        ELSE [entryPoints |-> <<>>, log |-> <<>>]

\* PackageJson.#process: the entry points, and the warnings logged. A legacy field
\* that is not a string is Undefined.
process(wd, fs, data, exportCondition, exportMap) ==
    IF Len(exportMap) > 0
    THEN [entryPoints |-> MapKeys(exportMap), log |-> <<>>]
    ELSE IF exportCondition = "types"
         THEN IF data.types # Undefined
              THEN IF ~isDTSFile(wd, fs, data.types)
                   THEN [entryPoints |-> <<>>,
                         log |-> <<Warning("typesNotDTSFile", Undefined, data.types)>>]
                   ELSE [entryPoints |-> <<PathResolve(wd, data.types)>>, log |-> <<>>]
              ELSE IF data.typings # Undefined
                   THEN IF ~isDTSFile(wd, fs, data.typings)
                        THEN [entryPoints |-> <<>>,
                              log |-> <<Warning("typingsNotDTSFile", Undefined, data.typings)>>]
                        ELSE [entryPoints |-> <<PathResolve(wd, data.typings)>>, log |-> <<>>]
                   ELSE [entryPoints |-> <<>>, log |-> <<>>]
         ELSE [entryPoints |-> <<>>, log |-> <<>>]

\* new PackageJson(packageObj, filepath, exportCondition), run in working directory wd.
\* `exportMap` is the empty sequence both for an empty Map and for no Map: the code
\* reads it only through `exportMap?.size`.
PackageJson(wd, fs, data, filepath, exportCondition) ==
    LET hasMap == \/ data.exports.kind = "object"
                  \/ (exportCondition = "default" /\ data.exports.kind = "string")
        Built(made, done) ==
            [ data |-> data,
              dirpath |-> PathDirname(filepath),
              exportCondition |-> exportCondition,
              exportMap |-> made.map,
              entryPoints |-> done.entryPoints,
              log |-> made.log \o done.log ]
        Process(made) == Built(made, process(wd, fs, data, exportCondition, made.map))
    IN  Process(IF hasMap THEN create(wd, fs, data, exportCondition) ELSE EmptyAcc)

(***************************************************************************)
(* PkgTypeDocMapping                                                       *)
(***************************************************************************)
\* An assignment that leaves a key that is present as it is.
ObjectSetKeepingFirst(obj, key, value) ==
    [k \in DOMAIN obj \cup {key} |-> IF k \in DOMAIN obj THEN obj[k] ELSE value]

\* obj[key] = value on an object kept as a function from its keys.
ObjectSet(obj, key, value) ==
    [k \in DOMAIN obj \cup {key} |-> IF k = key THEN value ELSE obj[k]]

EmptyObject == [k \in {} |-> <<>>]

\* String.prototype.replace(/\/index$/, '').
StripIndex(s) ==
    IF EndsWith(s, SL \o S_index) THEN SubSeq(s, 1, Len(s) - Len(S_index) - 1) ELSE s

\* PkgTypeDocMapping.addMapping(filepath, packageName, readmePath) on the static
\* #pkgConfig (cfg) and #basepath (base): the pkgConfig after the call.
addMapping(cfg, base, filepath, packageName, readmePath) ==
    LET withReadme(c) ==
            IF readmePath # Undefined
            THEN [c EXCEPT !.dmtModuleReadme = ObjectSet(@, packageName, readmePath)]
            ELSE c
        Name(relativeDir, filename, relativePath) ==
            IF relativeDir = DOT
            THEN withReadme([cfg EXCEPT !.dmtModuleNames = ObjectSet(@, filename, packageName)])
            ELSE IF relativePath = <<>> THEN cfg
            ELSE withReadme([cfg EXCEPT
                                !.dmtModuleNames = ObjectSet(@, relativePath, packageName)])
        Relative(relative) ==
            Name(PathDirname(relative), Split(PathBasename(filepath), ".")[1],
                 StripIndex(Split(relative, ".")[1]))
    IN  Relative(getRelativePath(base, filepath))

(***************************************************************************)
(* ExportMapSupport.processMapping                                         *)
(***************************************************************************)
\* The pattern taken as it is, its leading "./" kept.
StripLeadingRelativeSkipped(s) == s

\* String.prototype.replace(/^(\.+\/)+/g, ''): leading "./", "../", ... removed.
RECURSIVE StripLeadingRelative(_)
StripLeadingRelative(s) ==
    LET Strip(i) == IF i > 1 /\ \A j \in 1..(i - 1) : s[j] = "."
                    THEN StripLeadingRelative(SubSeq(s, i + 1, Len(s)))
                    ELSE s
    IN  Strip(IndexOf(s, "/"))

\* A run of pattern characters at position i of s; `.` of the pattern is the regular
\* expression's any-character. (The strings of the model hold no other character
\* that is special in a regular expression, and a pattern holds at most one `*`.)
RegexLiteralAt(pat, s, i) ==
    /\ i >= 1
    /\ i + Len(pat) - 1 <= Len(s)
    /\ \A k \in 1..Len(pat) : pat[k] = "." \/ pat[k] = s[i + k - 1]

\* entryPath.match(new RegExp(regexPattern)): whether it matches, and match[1]. The
\* match is the leftmost one and the group `(.*)` is greedy. Without a `*` in the
\* pattern there is no group and match[1] is undefined.
RegexCapture(regexSource, s) ==
    LET Match(star, pre, suf) ==
            LET ends(i) == {e \in (i + Len(pre))..(Len(s) + 1) : RegexLiteralAt(suf, s, e)}
                Group(i, last) ==
                    [matched |-> TRUE,
                     group |-> IF star = 0 THEN S_undefined
                               ELSE SubSeq(s, i + Len(pre), (CHOOSE x \in last :
                                                               \A y \in last : y <= x) - 1)]
                Leftmost(i) == Group(i, ends(i))
                From(starts) ==
                    IF starts = {} THEN [matched |-> FALSE, group |-> Undefined]
                    ELSE Leftmost(CHOOSE x \in starts : \A y \in starts : x <= y)
            IN  From({i \in 1..(Len(s) + 1) : RegexLiteralAt(pre, s, i) /\ ends(i) # {}})
        Parts(star) ==
            Match(star,
                  IF star = 0 THEN regexSource ELSE SubSeq(regexSource, 1, star - 1),
                  IF star = 0 THEN <<>> ELSE SubSeq(regexSource, star + 1, Len(regexSource)))
    IN  Parts(IndexOf(regexSource, "*"))

\* new RegExp(regexPattern) throws a SyntaxError ("nothing to repeat"): after the
\* first `*` became the group `(.*)`, a `*` or `+` of the pattern stands first or
\* follows a `*` or `+`. (The strings of the model hold no other character that
\* makes a regular expression invalid.)
RegexThrows(regexSource) ==
    LET quantifiers == {j \in 1..Len(regexSource) : regexSource[j] \in {"*", "+"}}
        Invalid(first) ==
            \E j \in quantifiers \ {first} : j = 1 \/ (j - 1) \in (quantifiers \ {first})
    IN  Invalid(IndexOf(regexSource, "*"))

\* The first entry of the map at which processMapping throws, 0 when there is none.
ThrowingEntry(exportMap) ==
    LET throwing == {k \in 1..Len(exportMap) :
                        /\ isGlob(exportMap[k].exportPath)
                        /\ exportMap[k].globEntryPath # Undefined
                        /\ RegexThrows(StripLeadingRelative(exportMap[k].globEntryPath))}
    IN  IF throwing = {} THEN 0 ELSE CHOOSE k \in throwing : \A m \in throwing : k <= m

\* The display name of one entry: whether the wildcard could be resolved, and
\* `resolvedPackageName`.
ResolvedPackageName(packageName, e) ==
    LET Named(m) ==
            [ok |-> m.matched,
             name |-> IF m.matched
                      THEN PathJoin(packageName, ReplaceAllStar(e.exportPath, m.group))
                      ELSE Undefined]
    IN  IF isGlob(e.exportPath) /\ e.globEntryPath # Undefined
        THEN Named(RegexCapture(StripLeadingRelative(e.globEntryPath), e.entryPath))
        ELSE [ok |-> TRUE, name |-> PathJoin(packageName, e.exportPath)]

\* The README of one entry, the package README taken for one package as for many.
ReadmePathForSinglePackage(fs, pj, e, resolvedPackageName, multiplePackages) ==
    LET Readme(packageReadmePath, subReadmePath) ==
            IF resolvedPackageName = pj.data.name
            THEN IF isFile(pj.dirpath, fs, packageReadmePath)
                 THEN packageReadmePath ELSE Undefined
            ELSE IF subReadmePath # packageReadmePath /\ isFile(pj.dirpath, fs, subReadmePath)
                 THEN subReadmePath ELSE Undefined
    IN  Readme(PathResolve(pj.dirpath, pj.dirpath \o SL \o S_readme),
               PathResolve(pj.dirpath, PathDirname(e.entryPath) \o SL \o S_readme))

\* The README of one entry, the README of the directory taken whichever it is.
ReadmePathOfAnyDirectory(fs, pj, e, resolvedPackageName, multiplePackages) ==
    LET Readme(packageReadmePath, subReadmePath) ==
            IF resolvedPackageName = pj.data.name
            THEN IF multiplePackages /\ isFile(pj.dirpath, fs, packageReadmePath)
                 THEN packageReadmePath ELSE Undefined
            ELSE IF isFile(pj.dirpath, fs, subReadmePath)
                 THEN subReadmePath ELSE Undefined
    IN  Readme(PathResolve(pj.dirpath, pj.dirpath \o SL \o S_readme),
               PathResolve(pj.dirpath, PathDirname(e.entryPath) \o SL \o S_readme))

\* The README of one entry (`readmePath`), Undefined when there is none.
ReadmePath(fs, pj, e, resolvedPackageName, multiplePackages) ==
    LET Readme(packageReadmePath, subReadmePath) ==
            IF resolvedPackageName = pj.data.name
            THEN IF multiplePackages /\ isFile(pj.dirpath, fs, packageReadmePath)
                 THEN packageReadmePath ELSE Undefined
            ELSE IF subReadmePath # packageReadmePath /\ isFile(pj.dirpath, fs, subReadmePath)
                 THEN subReadmePath ELSE Undefined
    IN  Readme(PathResolve(pj.dirpath, pj.dirpath \o SL \o S_readme),
               PathResolve(pj.dirpath, PathDirname(e.entryPath) \o SL \o S_readme))

MappingCall(filepath, packageName, readmePath) ==
    [filepath |-> filepath, packageName |-> packageName, readmePath |-> readmePath]

\* The loop of ExportMapSupport.processMapping over the entries of the map; st holds
\* the pkgConfig and the addMapping calls made.
RECURSIVE MappingLoop(_, _, _, _, _, _)
MappingLoop(st, base, fs, pj, entries, multiplePackages) ==
    LET e == Head(entries)
        Add(name, readmePath) ==
            [cfg |-> addMapping(st.cfg, base, e.filepath, name, readmePath),
             calls |-> Append(st.calls, MappingCall(e.filepath, name, readmePath))]
        Turn(r) ==
            IF ~r.ok THEN st
            ELSE Add(r.name, ReadmePath(fs, pj, e, r.name, multiplePackages))
    IN  IF Len(entries) = 0 THEN st
        ELSE MappingLoop(Turn(ResolvedPackageName(pj.data.name, e)), base, fs, pj,
                         Tail(entries), multiplePackages)

\* ExportMapSupport.processMapping(packageJson, multiplePackages).
ExportMapSupportProcessMapping(st, base, fs, pj, multiplePackages) ==
    MappingLoop(st, base, fs, pj, pj.exportMap, multiplePackages)

\* processMapping whose legacy branch maps the package.json file.
processMappingOfPackageFile(st, base, fs, pj, multiplePackages) ==
    LET Add(filepath) ==
            [cfg |-> addMapping(st.cfg, base, filepath, pj.data.name, Undefined),
             calls |-> Append(st.calls, MappingCall(filepath, pj.data.name, Undefined))]
    IN  IF Len(pj.exportMap) > 0
        THEN ExportMapSupportProcessMapping(st, base, fs, pj, multiplePackages)
        ELSE IF pj.exportCondition = "types" /\ Len(pj.entryPoints) = 1
             THEN Add(PathResolve(pj.dirpath, T_packagejson))
             ELSE st

\* PackageJson.processMapping(multiplePackages).
processMapping(st, base, fs, pj, multiplePackages) ==
    LET Add(readmePath) ==
            [cfg |-> addMapping(st.cfg, base, pj.entryPoints[1], pj.data.name, readmePath),
             calls |-> Append(st.calls,
                              MappingCall(pj.entryPoints[1], pj.data.name, readmePath))]
        Readme(packageReadmePath) ==
            Add(IF packageReadmePath # Undefined /\ packageReadmePath \in fs
                THEN packageReadmePath ELSE Undefined)
    IN  IF Len(pj.exportMap) > 0
        THEN ExportMapSupportProcessMapping(st, base, fs, pj, multiplePackages)
        ELSE IF pj.exportCondition = "types" /\ Len(pj.entryPoints) = 1
             THEN Readme(IF multiplePackages
                         THEN PathResolve(pj.dirpath, pj.dirpath \o SL \o S_readme)
                         ELSE Undefined)
             ELSE st

(***************************************************************************)
(* generateDocs / processConfig / processPath                              *)
(***************************************************************************)
\* commonPath(...paths) of @typhonjs-utils/file-util: the directory all paths share.
RECURSIVE CommonSegments(_, _)
CommonSegments(common, paths) ==
    IF Len(paths) = 0 THEN common
    ELSE CommonSegments(SubSeq(common, 1,
                               CommonLen(common, Split(PathDirname(Head(paths)), "/"))),
                        Tail(paths))

\* The directory of the first path only.
commonPathOfFirst(paths) ==
    IF Len(paths) = 0 THEN <<>> ELSE PathDirname(paths[1])

commonPath(paths) ==
    LET Dir(c) == IF c = <<>> THEN SL ELSE c
    IN  IF Len(paths) = 0 THEN <<>>
        ELSE Dir(Join(CommonSegments(Split(PathDirname(paths[1]), "/"), Tail(paths)), SL))

NoError == [kind |-> "none", path |-> <<>>]
ErrorOf(kind, path) == [kind |-> kind, path |-> path]
LogError(kind, path) == [level |-> "error", kind |-> kind, exportPath |-> Undefined, path |-> path]

\* The checks of validateConfig on `path` (every other option is left unset): the
\* error logged by the first path that fails, NoError when all pass.
\* Checks of `path` that accept every path.
ValidatePathsAccepting(wd, fs, paths) == NoError

RECURSIVE ValidatePaths(_, _, _)
ValidatePaths(wd, fs, paths) ==
    IF Len(paths) = 0 THEN NoError
    ELSE LET unixPath == Head(paths)
             Check(isPathDir, isPathFile) ==
                 IF ~(isPathDir \/ isPathFile) THEN ErrorOf("pathNotDirOrFile", unixPath)
                 ELSE IF isPathFile /\ ~( \/ regexIsDTSFile(unixPath)
                                          \/ regexAllowedFiles(unixPath)
                                          \/ EndsWith(unixPath, S_packagejson) )
                      THEN ErrorOf("pathNotAllowed", unixPath)
                      ELSE ValidatePaths(wd, fs, Tail(paths))
         IN  Check(isDirectory(wd, unixPath), isFile(wd, fs, unixPath))

\* getFileList({ dir, includeFile: /package\.json$/, resolve: true, walk: true }): the
\* package.json files below dir, sorted.
getFileList(fs, dir) ==
    SelectSeq(AllFiles, LAMBDA f : /\ f \in fs
                                   /\ StartsWith(f, dir \o SL)
                                   /\ EndsWith(f, S_packagejson))

\* validateConfig, the block of `monoRepo` (a boolean when set: <<TRUE>> or <<FALSE>>;
\* `path` is then one path): the error logged and the `path` the block leaves.
monoRepoScan(wd, fs, config) ==
    LET Found(resolvePath, packageFilepaths) ==
            IF Len(packageFilepaths) = 0
            THEN [err |-> ErrorOf("noPackagesFound", resolvePath), path |-> config.path]
            ELSE [err |-> NoError, path |-> packageFilepaths]
    IN  IF config.monoRepo = Undefined THEN [err |-> NoError, path |-> config.path]
        ELSE IF config.monoRepo = <<TRUE>> /\ ~isDirectory(wd, config.path[1])
        THEN [err |-> ErrorOf("monoRepoNotDirectory", <<>>), path |-> config.path]
        ELSE Found(PathResolve(wd, config.path[1]),
                   getFileList(fs, PathResolve(wd, config.path[1])))

\* linkPluginMap: the plugin of an API link name.
KnownLinks == {S_dom, S_es, S_worker}
linkPluginMap(entry) == S_tsLinks \o SL \o entry

\* validateConfig, the block of `linkPlugins`: the names are made a Set, the unknown
\* ones are warned about and left out, the others are mapped to their plugins.
LinkEntries(linkPlugins) == SetAddAll(<<>>, linkPlugins)

LinksExclusive(linkPlugins) ==
    /\ \E i \in 1..Len(linkPlugins) : linkPlugins[i] = S_dom
    /\ \E i \in 1..Len(linkPlugins) : linkPlugins[i] = S_worker

LinkPlugins(linkPlugins) ==
    LET known == SelectSeq(LinkEntries(linkPlugins), LAMBDA e : e \in KnownLinks)
    IN  [i \in 1..Len(known) |-> linkPluginMap(known[i])]

LinkWarnings(linkPlugins) ==
    LET unknown == SelectSeq(LinkEntries(linkPlugins), LAMBDA e : e \notin KnownLinks)
    IN  [i \in 1..Len(unknown) |-> Warning("unknownLink", Undefined, unknown[i])]

\* validateConfig: the block of `monoRepo`, the checks of `path`, of `tsconfigPath`
\* and `typedocPath`, then of `linkPlugins` (the options are of the documented
\* types): the error logged by the first check that fails, NoError when all pass.
validateConfig(wd, fs, config) ==
    LET Links(err) ==
            IF err.kind # "none" THEN err
            ELSE IF LinksExclusive(config.linkPlugins)
                 THEN ErrorOf("linkPluginsExclusive", <<>>)
            ELSE NoError
        Rest(err) ==
            IF err.kind # "none" THEN err
            ELSE IF config.tsconfigPath # Undefined /\ ~isFile(wd, fs, config.tsconfigPath)
                 THEN ErrorOf("tsconfigNotFile", config.tsconfigPath)
            ELSE IF config.typedocPath # Undefined /\ ~isFile(wd, fs, config.typedocPath)
                 THEN ErrorOf("typedocNotFile", config.typedocPath)
            ELSE NoError
        Paths(scan) ==
            IF scan.err.kind # "none" THEN scan.err
            ELSE Links(Rest(ValidatePaths(wd, fs, scan.path)))
    IN  Paths(monoRepoScan(wd, fs, config))

\* The config object as validateConfig leaves it: `path` holds the package.json files
\* found by the block of `monoRepo`, and `linkPlugins` the plugins, once every check
\* passed.
ValidatedConfig(wd, fs, config) ==
    LET Linked(c) ==
            IF validateConfig(wd, fs, config).kind = "none"
                 /\ config.linkPlugins # Undefined
            THEN [c EXCEPT !.linkPlugins = LinkPlugins(config.linkPlugins)]
            ELSE c
    IN  Linked([config EXCEPT !.path = monoRepoScan(wd, fs, config).path])

\* Object.assign({ exportCondition, linkChecker, logLevel, output }, origConfig) of
\* processConfig: the shallow copy, with the defaults of the options the caller left
\* out (`exportCondition` is given by every caller explored).
CopyWithDefaults(origConfig) ==
    [origConfig EXCEPT !.linkChecker = IF @ = Undefined THEN <<FALSE>> ELSE @,
                       !.logLevel = IF @ = Undefined THEN S_info ELSE @,
                       !.output = IF @ = Undefined THEN S_docs ELSE @]

\* JSON.parse(fs.readFileSync(p)) returns: the file can be read and holds JSON.
LoadsJSON(wd, fs, p) == isFile(wd, fs, p) /\ PathResolve(wd, p) \notin MalformedFiles

\* processTSConfig: the error string returned, NoError when compiler options result.
\* (The compiler options of the files of the model pass validateCompilerOptions.)
processTSConfig(wd, fs, config) ==
    IF config.tsconfigPath # Undefined /\ ~LoadsJSON(wd, fs, config.tsconfigPath)
    THEN ErrorOf("tsconfigLoad", config.tsconfigPath)
    ELSE NoError

\* processTypedoc: the error string returned, NoError when it returns typedocJSON.
processTypedoc(wd, fs, config) ==
    IF config.typedocPath # Undefined /\ ~LoadsJSON(wd, fs, config.typedocPath)
    THEN ErrorOf("typedocLoad", config.typedocPath)
    ELSE NoError

\* The object processTypedoc returns: the content of the file of `typedocPath`.
TypedocJSON(wd, config) ==
    IF config.typedocPath = Undefined THEN Undefined
    ELSE [out |-> IF PathResolve(wd, config.typedocPath) = PathResolve(Root, T_typedocOut)
                  THEN S_api ELSE Undefined]

\* processConfig going on to processPath whatever the option files hold.
processOptionsUnchecked(wd, fs, config) == NoError

\* processConfig up to the call of processPath: the error string returned by
\* processTSConfig or processTypedoc, NoError when both pass.
processOptions(wd, fs, config) ==
    LET Then(err) == IF err.kind # "none" THEN err ELSE processTypedoc(wd, fs, config)
    IN  Then(processTSConfig(wd, fs, config))

\* getPackageWithPath({ filepath: dirname, basepath: dirname }): the package.json of
\* that very directory.
PackageFilepath(dirname) == PathResolve(dirname, T_packagejson)

HasPackage(fs, pkgs, dirname) ==
    PackageFilepath(dirname) \in fs /\ dirname \in DOMAIN pkgs

NewPkgConfig ==
    [ dmtModuleNames |-> EmptyObject,
      dmtModuleReadme |-> EmptyObject,
      isPackage |-> FALSE,
      linkChecker |-> Undefined,
      linkPlugins |-> Undefined,
      output |-> Undefined,
      typedocOptions |-> Undefined,
      typedocJSON |-> Undefined,
      entryPoints |-> <<>>,
      entryPointsDTS |-> FALSE ]

\* The pkgConfig processConfig creates from the validated config; typedocJSON is
\* assigned once processTypedoc returned.
CreatePkgConfig(config, typedocJSON) ==
    [NewPkgConfig EXCEPT !.linkChecker = config.linkChecker,
                         !.linkPlugins = config.linkPlugins,
                         !.output = config.output,
                         !.typedocOptions = config.typedocOptions,
                         !.typedocJSON = typedocJSON]

Config == configs[cfgIdx]

\* processConfig returns an error string to generateDocs, the process being in
\* working directory wd.
Abort(err, wd) ==
    /\ cwd' = wd
    /\ outcome' = Append(outcome, [status |-> "aborted", error |-> err,
                                   pkgConfig |-> NewPkgConfig])
    /\ pc' = "returned"

\* processConfig working on the object of the caller itself: the defaults and what
\* validateConfig assigns are written to it.
ProcessConfigInPlace ==
    /\ pc = "config"
    /\ origCWD' = cwd
    /\ \E copy \in {CopyWithDefaults(configs[cfgIdx])} :
       \E err \in {validateConfig(cwd, files, copy)} :
       \E config \in {ValidatedConfig(cwd, files, copy)} :
           /\ configCopy' = config
           /\ configs' = [configs EXCEPT ![cfgIdx] = config]
           /\ IF err.kind # "none"
              THEN /\ log' = log \o <<LogError(err.kind, err.path)>>
                   /\ Abort(ErrorOf("validation", <<>>), cwd)
                   /\ UNCHANGED <<pkgConfig, pathIdx, allEntryPoints, allPackages>>
              ELSE IF processOptions(cwd, files, config).kind # "none"
              THEN /\ Abort(processOptions(cwd, files, config), cwd)
                   /\ log' = log \o LinkWarnings(copy.linkPlugins)
                   /\ pkgConfig' = CreatePkgConfig(config, Undefined)
                   /\ UNCHANGED <<pathIdx, allEntryPoints, allPackages>>
              ELSE /\ log' = log \o LinkWarnings(copy.linkPlugins)
                   /\ pkgConfig' = CreatePkgConfig(config, TypedocJSON(cwd, config))
                   /\ pathIdx' = 1
                   /\ allEntryPoints' = <<>>
                   /\ allPackages' = <<>>
                   /\ pc' = "paths"
                   /\ UNCHANGED <<cwd, outcome>>
    /\ UNCHANGED <<files, packages, cfgIdx, pkgIdx, basepath, mappingCalls,
                   typedocCalls, optionsDoc>>

\* One turn of the loop of generateDocs, up to the call of processPath: processConfig
\* copies the config, validates it and creates the pkgConfig.
ProcessConfig ==
    /\ pc = "config"
    /\ origCWD' = cwd
    /\ \E copy \in {CopyWithDefaults(configs[cfgIdx])} :
       \E err \in {validateConfig(cwd, files, copy)} :
       \E config \in {ValidatedConfig(cwd, files, copy)} :
           /\ configCopy' = config
           /\ IF err.kind # "none"
              THEN /\ log' = log \o <<LogError(err.kind, err.path)>>
                   /\ Abort(ErrorOf("validation", <<>>), cwd)
                   /\ UNCHANGED <<pkgConfig, pathIdx, allEntryPoints, allPackages>>
              ELSE IF processOptions(cwd, files, config).kind # "none"
              THEN /\ Abort(processOptions(cwd, files, config), cwd)
                   /\ log' = log \o LinkWarnings(copy.linkPlugins)
                   /\ pkgConfig' = CreatePkgConfig(config, Undefined)
                   /\ UNCHANGED <<pathIdx, allEntryPoints, allPackages>>
              ELSE /\ log' = log \o LinkWarnings(copy.linkPlugins)
                   /\ pkgConfig' = CreatePkgConfig(config, TypedocJSON(cwd, config))
                   /\ pathIdx' = 1
                   /\ allEntryPoints' = <<>>
                   /\ allPackages' = <<>>
                   /\ pc' = "paths"
                   /\ UNCHANGED <<cwd, outcome>>
    /\ UNCHANGED <<files, packages, configs, cfgIdx, pkgIdx, basepath, mappingCalls,
                   typedocCalls, optionsDoc>>

\* One turn of the loop over the input paths that passes over a directory without
\* package.json and goes on with the next input.
ProcessPathStepSkipping ==
    /\ pc = "paths"
    /\ pathIdx <= Len(configCopy.path)
    /\ \E nextPath \in {configCopy.path[pathIdx]} :
       \E isPathDir \in {isDirectory(cwd, nextPath)} :
       \E dirname \in {IF isPathDir THEN PathResolve(cwd, nextPath)
                       ELSE PathDirname(PathResolve(cwd, nextPath))} :
           IF isPathDir \/ EndsWith(nextPath, S_packagejson)
           THEN IF ~HasPackage(files, packages, dirname)
                THEN /\ pkgConfig' = [pkgConfig EXCEPT !.isPackage = TRUE]
                     /\ pathIdx' = pathIdx + 1
                     /\ UNCHANGED <<cwd, outcome, pc, log, allEntryPoints, allPackages>>
                ELSE \E packageJson \in {PackageJson(dirname, files, packages[dirname],
                                                     PackageFilepath(dirname),
                                                     configCopy.exportCondition)} :
                         /\ pkgConfig' = [pkgConfig EXCEPT !.isPackage = TRUE]
                         /\ allEntryPoints' = SetAddAll(allEntryPoints, packageJson.entryPoints)
                         /\ allPackages' = Append(allPackages, packageJson)
                         /\ log' = log \o packageJson.log
                         /\ pathIdx' = pathIdx + 1
                         /\ UNCHANGED <<cwd, outcome, pc>>
           ELSE /\ IF isFile(cwd, files, nextPath) /\ regexAllowedFiles(nextPath)
                   THEN allEntryPoints' = SetAdd(allEntryPoints, PathResolve(cwd, nextPath))
                   ELSE allEntryPoints' = allEntryPoints
                /\ pathIdx' = pathIdx + 1
                /\ UNCHANGED <<cwd, outcome, pc, log, pkgConfig, allPackages>>
    /\ UNCHANGED <<files, packages, configs, configCopy, cfgIdx, pkgIdx, origCWD,
                   basepath, mappingCalls, typedocCalls, optionsDoc>>

\* One turn of the loop of processPath over the input paths.
ProcessPathStep ==
    /\ pc = "paths"
    /\ pathIdx <= Len(configCopy.path)
    /\ \E nextPath \in {configCopy.path[pathIdx]} :
       \E isPathDir \in {isDirectory(cwd, nextPath)} :
       \E dirname \in {IF isPathDir THEN PathResolve(cwd, nextPath)
                       ELSE PathDirname(PathResolve(cwd, nextPath))} :
           IF isPathDir \/ EndsWith(nextPath, S_packagejson)
           THEN IF ~HasPackage(files, packages, dirname)
                THEN /\ Abort(ErrorOf("noPackageJson", dirname), dirname)
                     /\ pkgConfig' = [pkgConfig EXCEPT !.isPackage = TRUE]
                     /\ UNCHANGED <<pathIdx, allEntryPoints, allPackages, log>>
                ELSE \E packageJson \in {PackageJson(dirname, files, packages[dirname],
                                                     PackageFilepath(dirname),
                                                     configCopy.exportCondition)} :
                         /\ pkgConfig' = [pkgConfig EXCEPT !.isPackage = TRUE]
                         /\ allEntryPoints' = SetAddAll(allEntryPoints, packageJson.entryPoints)
                         /\ allPackages' = Append(allPackages, packageJson)
                         /\ log' = log \o packageJson.log
                         /\ pathIdx' = pathIdx + 1
                         /\ UNCHANGED <<cwd, outcome, pc>>
           ELSE /\ IF isFile(cwd, files, nextPath) /\ regexAllowedFiles(nextPath)
                   THEN allEntryPoints' = SetAdd(allEntryPoints, PathResolve(cwd, nextPath))
                   ELSE allEntryPoints' = allEntryPoints
                /\ pathIdx' = pathIdx + 1
                /\ UNCHANGED <<cwd, outcome, pc, log, pkgConfig, allPackages>>
    /\ UNCHANGED <<files, packages, configs, configCopy, cfgIdx, pkgIdx, origCWD,
                   basepath, mappingCalls, typedocCalls, optionsDoc>>

\* processPath after the loop, going on to the mapping whatever the number of entry
\* points.
FinishPathsWithoutEntryCheck ==
    /\ pc = "paths"
    /\ pathIdx > Len(configCopy.path)
    /\ basepath' = IF Len(allPackages) > 0 THEN commonPath(allEntryPoints) ELSE basepath
    /\ pkgIdx' = 1
    /\ pc' = "mapping"
    /\ UNCHANGED <<cwd, log, outcome>>
    /\ UNCHANGED <<files, packages, configs, configCopy, cfgIdx, pathIdx,
                   allEntryPoints, allPackages, pkgConfig, origCWD, mappingCalls,
                   typedocCalls, optionsDoc>>

\* processPath after the loop: no entry point is an error; otherwise the common base
\* path is computed and PkgTypeDocMapping initialized when there is a package.
FinishPaths ==
    /\ pc = "paths"
    /\ pathIdx > Len(configCopy.path)
    /\ IF Len(allEntryPoints) = 0
       THEN /\ Abort(ErrorOf("noEntryPoints", <<>>), cwd)
            /\ UNCHANGED <<basepath, pkgIdx, log>>
       ELSE /\ basepath' = IF Len(allPackages) > 0 THEN commonPath(allEntryPoints)
                           ELSE basepath
            /\ pkgIdx' = 1
            /\ pc' = "mapping"
            /\ UNCHANGED <<cwd, log, outcome>>
    /\ UNCHANGED <<files, packages, configs, configCopy, cfgIdx, pathIdx,
                   allEntryPoints, allPackages, pkgConfig, origCWD, mappingCalls,
                   typedocCalls, optionsDoc>>

\* generateDocs after processConfig returned an error string: the working directory
\* is restored, the error is logged and generateDocs returns.
ReportError ==
    /\ pc = "returned"
    /\ cwd' = origCWD
    /\ log' = log \o <<LogError(outcome[Len(outcome)].error.kind,
                                 outcome[Len(outcome)].error.path)>>
    /\ pc' = "done"
    /\ UNCHANGED <<files, packages, configs, configCopy, cfgIdx, pathIdx,
                   allEntryPoints, allPackages, pkgIdx, pkgConfig, origCWD, basepath,
                   mappingCalls, typedocCalls, optionsDoc, outcome>>

\* One turn of the loop of processPath over the packages:
\* packageJson.processMapping(multiplePackages). An exception of new RegExp ends the
\* loop over the entries at that entry and leaves generateDocs, nothing catches it:
\* the working directory stays the directory of the package.
ProcessMappingStep ==
    /\ pc = "mapping"
    /\ pkgIdx <= Len(allPackages)
    /\ \E multiplePackages \in {Len(allPackages) > 1} :
       \E pj \in {allPackages[pkgIdx]} :
       \E thrower \in {ThrowingEntry(pj.exportMap)} :
           IF thrower = 0
           THEN \E st \in {processMapping([cfg |-> pkgConfig, calls |-> mappingCalls],
                                          basepath, files, pj, multiplePackages)} :
                    /\ pkgConfig' = st.cfg
                    /\ mappingCalls' = st.calls
                    /\ pkgIdx' = pkgIdx + 1
                    /\ UNCHANGED <<pc, cwd, outcome>>
           ELSE \E st \in {MappingLoop([cfg |-> pkgConfig, calls |-> mappingCalls],
                                       basepath, files, pj,
                                       SubSeq(pj.exportMap, 1, thrower - 1),
                                       multiplePackages)} :
                    /\ pkgConfig' = st.cfg
                    /\ mappingCalls' = st.calls
                    /\ pkgIdx' = pkgIdx
                    /\ cwd' = pj.dirpath
                    /\ outcome' = Append(outcome,
                                         [status |-> "thrown",
                                          error |-> ErrorOf("SyntaxError",
                                                            pj.exportMap[thrower].globEntryPath),
                                          pkgConfig |-> st.cfg])
                    /\ pc' = "thrown"
    /\ UNCHANGED <<files, packages, configs, configCopy, cfgIdx, pathIdx,
                   allEntryPoints, allPackages, origCWD, basepath, log, typedocCalls,
                   optionsDoc>>

\* createTypedocOptions, as far as `out` goes: Object.assign(optionsDefault,
\* typedocJSON, typedocOptions, optionsRequired), then `out` is replaced by
\* config.output when it is no string or differs from a config.output that is a
\* string. The options and the info message logged.
createTypedocOptions(config) ==
    LET OutOf(options) == IF options = Undefined THEN Undefined ELSE options.out
        Created(out) ==
            IF out = Undefined \/ (config.output # Undefined /\ out # config.output)
            THEN [options |-> [entryPoints |-> config.entryPoints,
                               out |-> IF config.output # Undefined THEN config.output
                                       ELSE S_docs],
                  log |-> IF out # Undefined /\ config.output # Undefined
                          THEN <<[level |-> "info", kind |-> "overridingOut",
                                  exportPath |-> Undefined, path |-> out]>>
                          ELSE <<>>]
            ELSE [options |-> [entryPoints |-> config.entryPoints, out |-> out],
                  log |-> <<>>]
    IN  Created(IF OutOf(config.typedocOptions) # Undefined
                THEN OutOf(config.typedocOptions)
                ELSE OutOf(config.typedocJSON))

\* The end of processPath and of processConfig, and generateDocs calling
\* generateTypedoc with the processed config, which creates the TypeDoc options; then
\* the next config, if any.
GenerateTypedoc ==
    /\ pc = "mapping"
    /\ pkgIdx > Len(allPackages)
    /\ \E final \in {[pkgConfig EXCEPT
                        !.entryPoints = allEntryPoints,
                        !.entryPointsDTS = \A i \in 1..Len(allEntryPoints) :
                                               regexIsDTSFile(allEntryPoints[i])]} :
       \E created \in {createTypedocOptions(final)} :
           /\ pkgConfig' = final
           /\ typedocCalls' = Append(typedocCalls, final)
           /\ optionsDoc' = Append(optionsDoc, created.options)
           /\ log' = log \o created.log
           /\ outcome' = Append(outcome, [status |-> "generated", error |-> NoError,
                                          pkgConfig |-> final])
    /\ cwd' = origCWD
    /\ IF cfgIdx < Len(configs)
       THEN /\ cfgIdx' = cfgIdx + 1
            /\ pc' = "config"
       ELSE /\ cfgIdx' = cfgIdx
            /\ pc' = "done"
    /\ UNCHANGED <<files, packages, configs, configCopy, pathIdx, allEntryPoints,
                   allPackages, pkgIdx, origCWD, basepath, mappingCalls>>

Next ==
    \/ ProcessConfig
    \/ ProcessPathStep
    \/ FinishPaths
    \/ ReportError
    \/ ProcessMappingStep
    \/ GenerateTypedoc

(***************************************************************************)
(* Initial states: the file systems, packages and configs explored         *)
(***************************************************************************)
MaxExports == 2
MaxPaths == 2

\* A GenerateConfig with the options the model follows.
GenerateConfig(path, exportCondition, tsconfigPath, typedocPath) ==
    [path |-> path, exportCondition |-> exportCondition,
     tsconfigPath |-> tsconfigPath, typedocPath |-> typedocPath,
     packageName |-> Undefined, monoRepo |-> Undefined, output |-> Undefined,
     typedocOptions |-> Undefined, linkPlugins |-> Undefined,
     linkChecker |-> Undefined, logLevel |-> Undefined]

PackageData(name, exports, types, typings) ==
    [name |-> name, exports |-> exports, types |-> types, typings |-> typings]

Entry(key, target) == [key |-> key, target |-> target]

ExportConditions == {"types", "import"}

\* Files present in every file system explored.
BaseFiles ==
    { PathResolve(DirA, T_packagejson), PathResolve(DirA, T_indexJs),
      PathResolve(DirA, T_rootSub), PathResolve(DirA, T_srcIndex),
      PathResolve(DirA, T_featA),
      PathResolve(DirB, T_packagejson), PathResolve(DirB, T_srcIndex),
      PathResolve(DirC, T_main) }

\* Package b: a root export of its declaration file.
PackageB ==
    PackageData(S_pb, ObjectExports(<<Entry(K_root, StrTarget(T_srcIndex))>>),
                Undefined, Undefined)

\* --- exports maps of package a, built from keys and targets ---------------
ExportKeySet == {K_root, K_sub, K_featStar}

ExportTargetSet ==
    { StrTarget(T_srcIndex), StrTarget(T_subIndex), StrTarget(T_featStar),
      StrTarget(T_indexJs), StrTarget(T_rootSub),
      CondTarget(<<[cond |-> "types", path |-> T_srcIndex],
                   [cond |-> "import", path |-> T_indexJs]>>) }

ExportEntrySet == {Entry(k, t) : k \in ExportKeySet, t \in ExportTargetSet}

\* The objects of at most MaxExports keys; an object holds a key once.
ExportObjects ==
    UNION { { es \in [1..n -> ExportEntrySet] :
                \A i, j \in 1..n : i # j => es[i].key # es[j].key }
            : n \in 0..MaxExports }

OptionalFilesExports == {PathResolve(DirA, T_subIndex), PathResolve(DirA, T_featB)}

\* One package with any exports map.
ExportsCase ==
    /\ files \in {BaseFiles \cup opt : opt \in SUBSET OptionalFilesExports}
    /\ \E es \in ExportObjects :
         packages = (DirA :> PackageData(S_pa, ObjectExports(es), Undefined, Undefined))
                    @@ (DirB :> PackageB)
    /\ \E c \in ExportConditions :
         configs = <<GenerateConfig(<<DirA>>, c, Undefined, Undefined)>>

\* --- invocations over several input paths ---------------------------------
InputPathSet ==
    { DirA, DirB, PathResolve(DirB, T_packagejson), DirC, PathResolve(DirC, T_main) }

InputPaths == UNION { [1..n -> InputPathSet] : n \in 1..MaxPaths }

PackagesA ==
    { PackageData(S_pa, ObjectExports(<<Entry(K_root, StrTarget(T_srcIndex)),
                                        Entry(K_sub, StrTarget(T_subIndex))>>),
                  Undefined, Undefined),
      PackageData(S_pa, ObjectExports(<<Entry(K_root, StrTarget(T_srcIndex)),
                                        Entry(K_featStar, StrTarget(T_featStar))>>),
                  Undefined, Undefined),
      PackageData(S_pa, ObjectExports(<<Entry(K_sub, StrTarget(T_rootSub))>>),
                  Undefined, Undefined),
      PackageData(S_pa, ObjectExports(<<>>), Undefined, Undefined),
      PackageData(S_pa, ObjectExports(<<>>), T_srcIndex, Undefined),
      PackageData(S_pa, NoExports, Undefined, Undefined) }

OptionalFilesPaths ==
    { PathResolve(DirA, T_readme), PathResolve(DirB, T_readme),
      PathResolve(DirA, T_featReadme) }

\* The package.json of directory b: loaded, absent, or a file that cannot be loaded.
PackageStates == {"loaded", "absent", "unreadable"}

\* Package a is one of PackagesA; directory b holds package b, no package.json or
\* one that cannot be loaded; directory c holds none.
PathsCase ==
    /\ \E opt \in SUBSET OptionalFilesPaths, b \in PackageStates, a \in PackagesA :
         /\ files = ((BaseFiles \cup {PathResolve(DirA, T_subIndex),
                                      PathResolve(DirA, T_featB)} \cup opt)
                        \ (IF b = "absent" THEN {PathResolve(DirB, T_packagejson)} ELSE {}))
         /\ packages = IF b = "loaded" THEN (DirA :> a) @@ (DirB :> PackageB)
                       ELSE (DirA :> a)
    /\ \E ps \in InputPaths, c \in ExportConditions :
         configs = <<GenerateConfig(ps, c, Undefined, Undefined)>>

\* --- invocations over several configs ---------------------------------------
MaxConfigs == 2

\* One package, two packages, a bare file, a directory without package.json.
ConfigPathSet == { <<DirA>>, <<DirA, DirB>>, <<PathResolve(DirC, T_main)>>, <<DirC>> }

\* No option file, both loading, a tsconfig that does not load, a typedoc.json that
\* does not load.
ConfigOptionSet ==
    { <<Undefined, Undefined>>,
      <<PathResolve(Root, T_tsconfig), PathResolve(Root, T_typedoc)>>,
      <<PathResolve(Root, T_malformed), Undefined>>,
      <<Undefined, PathResolve(Root, T_malformed)>> }

ConfigSet ==
    { GenerateConfig(ps, "types", o[1], o[2]) : ps \in ConfigPathSet, o \in ConfigOptionSet }

ConfigLists == UNION { [1..n -> ConfigSet] : n \in 1..MaxConfigs }

\* Package a with a root and a sub-path export, with a wildcard export, or without
\* any entry point.
PackagesOfConfigs ==
    { PackageData(S_pa, ObjectExports(<<Entry(K_root, StrTarget(T_srcIndex)),
                                        Entry(K_sub, StrTarget(T_subIndex))>>),
                  Undefined, Undefined),
      PackageData(S_pa, ObjectExports(<<Entry(K_root, StrTarget(T_srcIndex)),
                                        Entry(K_featStar, StrTarget(T_featStar))>>),
                  Undefined, Undefined),
      PackageData(S_pa, ObjectExports(<<>>), Undefined, Undefined) }

ConfigsCase ==
    /\ \E opt \in {{}, OptionalFilesPaths} :
         files = BaseFiles \cup {PathResolve(DirA, T_subIndex), PathResolve(DirA, T_featB)}
                     \cup OptionFiles \cup opt
    /\ \E a \in PackagesOfConfigs : packages = (DirA :> a) @@ (DirB :> PackageB)
    /\ configs \in ConfigLists

\* --- export conditions ------------------------------------------------------
ConditionNames == {"types", "import", "default", "require"}

\* A target that is an object of one or two conditions, each naming the declaration
\* file or the script.
ConditionTargets ==
    LET Choice == {[cond |-> c, path |-> t] : c \in ConditionNames,
                                              t \in {T_srcIndex, T_indexJs}}
    IN  {CondTarget(<<a>>) : a \in Choice}
            \cup {CondTarget(<<p[1], p[2]>>) :
                      p \in {q \in Choice \X Choice : q[1].cond # q[2].cond}}

\* An object of conditions without sub-path keys (strings or null under one or two
\* conditions).
FlatObjects ==
    LET Key(c) == CHOOSE k \in {S_types, S_import, S_default, S_require} :
                      ConditionOfKey(k) = c
        Values == {StrTarget(T_srcIndex), StrTarget(T_indexJs), NullTarget}
    IN  {<<Entry(Key(a), v)>> : a \in ConditionNames, v \in Values \ {NullTarget}}
            \cup {<<Entry(Key(p[1]), v), Entry(Key(p[2]), w)>> :
                      p \in {q \in {"import", "types"} \X {"import", "types", "default"} :
                                 q[1] # q[2]},
                      v \in Values, w \in Values \ {NullTarget}}

\* The `exports` of package a: one key "." with an object of conditions, a string,
\* or an object of conditions.
ConditionExports ==
    {ObjectExports(<<Entry(K_root, t)>>) : t \in ConditionTargets}
        \cup {StringExports(T_indexJs), StringExports(T_srcIndex), StringExports(T_subIndex)}
        \cup {ObjectExports(es) : es \in FlatObjects}

ConditionsCase ==
    /\ files = BaseFiles
    /\ \E ex \in ConditionExports :
         packages = (DirA :> PackageData(S_pa, ex, Undefined, Undefined))
                    @@ (DirB :> PackageB)
    /\ \E c \in ConditionNames : configs = <<GenerateConfig(<<DirA>>, c, Undefined, Undefined)>>

\* --- legacy `types` / `typings` fields ----------------------------------------
\* No exports, an empty object, a root export that is a script, a root export that
\* is a declaration file.
LegacyExports ==
    { NoExports, ObjectExports(<<>>),
      ObjectExports(<<Entry(K_root, StrTarget(T_indexJs))>>),
      ObjectExports(<<Entry(K_root, StrTarget(T_srcIndex))>>) }

\* `types`: not a string, a declaration file, a script, a declaration file that does
\* not exist.
LegacyTypes == {Undefined, T_srcIndex, T_indexJs, T_featB}

\* `typings`: not a string, a declaration file, a script.
LegacyTypings == {Undefined, T_subIndex, T_indexJs}

LegacyConditions == {"types", "import", "default"}

LegacyPathSet == { <<DirA>>, <<DirA, DirB>>, <<PathResolve(DirA, T_packagejson)>> }

LegacyCase ==
    /\ \E opt \in {{}, {PathResolve(DirA, T_readme)}} :
         files = BaseFiles \cup {PathResolve(DirA, T_subIndex)} \cup opt
    /\ \E ex \in LegacyExports, t \in LegacyTypes, ty \in LegacyTypings :
         packages = (DirA :> PackageData(S_pa, ex, t, ty)) @@ (DirB :> PackageB)
    /\ \E ps \in LegacyPathSet, c \in LegacyConditions :
         configs = <<GenerateConfig(ps, c, Undefined, Undefined)>>

\* --- input paths of other shapes ---------------------------------------------
T_mainDcts == DOT \o SL \o S_main \o S_dcts

\* A package directory, a script, a declaration file with the extension .d.cts, a
\* file that is no script, and a script that does not exist.
StrayInputSet ==
    { DirA, PathResolve(DirC, T_main), PathResolve(DirC, T_mainDcts),
      PathResolve(DirA, T_readme), PathResolve(DirC, T_indexJs) }

StrayInputPaths == UNION { [1..n -> StrayInputSet] : n \in 1..MaxPaths }

StrayCase ==
    /\ files = BaseFiles \cup {PathResolve(DirC, T_mainDcts), PathResolve(DirA, T_readme)}
    /\ \E ex \in {ObjectExports(<<Entry(K_root, StrTarget(T_srcIndex))>>), NoExports} :
         packages = (DirA :> PackageData(S_pa, ex, Undefined, Undefined))
                    @@ (DirB :> PackageB)
    /\ \E ps \in StrayInputPaths, c \in ExportConditions :
         configs = <<GenerateConfig(ps, c, Undefined, Undefined)>>

\* --- entry points that derive the same module key -----------------------------
T_subDirIndex == DOT \o SL \o S_sub \o SL \o S_index \o S_dts
T_indexMjs == DOT \o SL \o S_index \o S_mjs

\* ./sub.d.ts and ./sub/index.d.ts, ./index.js and ./index.mjs: each pair gives one
\* module key.
CollideTargetSet ==
    { StrTarget(T_rootSub), StrTarget(T_subDirIndex), StrTarget(T_srcIndex),
      StrTarget(T_indexJs),
      CondTarget(<<[cond |-> "types", path |-> T_rootSub],
                   [cond |-> "import", path |-> T_indexJs]>>),
      CondTarget(<<[cond |-> "types", path |-> T_subDirIndex],
                   [cond |-> "import", path |-> T_indexMjs]>>) }

\* A root export alone, or a root export and a sub-path export.
CollideObjects ==
    {<<Entry(K_root, t)>> : t \in CollideTargetSet}
        \cup {<<Entry(K_root, t), Entry(K_sub, u)>> : t \in CollideTargetSet,
                                                      u \in CollideTargetSet}

CollidePathSet == { <<DirA>>, <<DirA, DirB>>, <<DirB, DirA>> }

CollideCase ==
    /\ files = BaseFiles \cup {PathResolve(DirA, T_subDirIndex), PathResolve(DirA, T_indexMjs)}
    /\ \E es \in CollideObjects :
         packages = (DirA :> PackageData(S_pa, ObjectExports(es), Undefined, Undefined))
                    @@ (DirB :> PackageB)
    /\ \E ps \in CollidePathSet, c \in ExportConditions :
         configs = <<GenerateConfig(ps, c, Undefined, Undefined)>>

\* --- entry points in directories whose name holds a "." ------------------------
\* ./src/v.1/index.d.ts and ./.h/index.d.ts
T_dottedDir == DOT \o SL \o S_src \o SL \o <<"v", ".", "1">> \o SL \o S_index \o S_dts
T_hiddenDir == DOT \o SL \o <<".", "h">> \o SL \o S_index \o S_dts

KeyTargetSet ==
    { StrTarget(T_srcIndex), StrTarget(T_rootSub), StrTarget(T_featA),
      StrTarget(T_dottedDir), StrTarget(T_hiddenDir), StrTarget(T_indexJs) }

KeyObjects ==
    {<<Entry(K_root, t)>> : t \in KeyTargetSet}
        \cup {<<Entry(K_root, t), Entry(K_sub, u)>> : t \in KeyTargetSet, u \in KeyTargetSet}

KeyPathSet == { <<DirA>>, <<DirA, DirB>>, <<DirA, PathResolve(DirC, T_main)>> }

KeysCase ==
    /\ files = BaseFiles \cup {PathResolve(DirA, T_dottedDir), PathResolve(DirA, T_hiddenDir)}
    /\ \E es \in KeyObjects :
         packages = (DirA :> PackageData(S_pa, ObjectExports(es), Undefined, Undefined))
                    @@ (DirB :> PackageB)
    /\ \E ps \in KeyPathSet :
         configs = <<GenerateConfig(ps, "types", Undefined, Undefined)>>

\* --- exports keys that are dropped ---------------------------------------------
\* ./src/./feat/*.d.ts: glob matches the files of src/feat, and the pattern taken as
\* a regular expression does not match their paths.
T_featStarDot == DOT \o SL \o S_src \o SL \o DOT \o SL \o S_feat \o SL \o STAR \o S_dts

\* A target the resolver fails on, targets of the wrong file type, a wildcard that
\* cannot be matched against its expansion, a wildcard in the directory c++, and
\* targets that are kept.
RecoverTargetSet ==
    { NullTarget, StrTarget(T_indexJs), StrTarget(T_readme), StrTarget(T_featStarDot),
      StrTarget(T_plusStar),
      StrTarget(T_srcIndex), StrTarget(T_rootSub), StrTarget(T_featStar) }

RecoverObjects ==
    {<<Entry(k, t)>> : k \in ExportKeySet, t \in RecoverTargetSet}
        \cup {<<Entry(p[1], t), Entry(p[2], u)>> :
                  p \in {q \in ExportKeySet \X ExportKeySet : q[1] # q[2]},
                  t \in RecoverTargetSet, u \in RecoverTargetSet}

RecoverCase ==
    /\ files = BaseFiles \cup {PathResolve(DirA, T_featB), PathResolve(DirA, T_readme),
                            PathResolve(DirA, T_plusA)}
    /\ \E es \in RecoverObjects :
         packages = (DirA :> PackageData(S_pa, ObjectExports(es), Undefined, Undefined))
                    @@ (DirB :> PackageB)
    /\ \E c \in ExportConditions :
         configs = <<GenerateConfig(<<DirA>>, c, Undefined, Undefined)>>

\* --- the option packageName --------------------------------------------------
S_custom == <<"c", "u", "s", "t", "o", "m">>

\* Package a with a root and a sub-path export, with the legacy field, or without
\* any entry point.
NamedPackages ==
    { PackageData(S_pa, ObjectExports(<<Entry(K_root, StrTarget(T_srcIndex)),
                                        Entry(K_sub, StrTarget(T_rootSub))>>),
                  Undefined, Undefined),
      PackageData(S_pa, NoExports, T_srcIndex, Undefined),
      PackageData(S_pa, NoExports, Undefined, Undefined) }

NamedCase ==
    /\ \E opt \in SUBSET {PathResolve(DirA, T_readme), PathResolve(DirB, T_readme)} :
         files = BaseFiles \cup opt
    /\ \E a \in NamedPackages : packages = (DirA :> a) @@ (DirB :> PackageB)
    /\ \E ps \in {<<DirA>>, <<DirA, DirB>>}, c \in ExportConditions,
          name \in {Undefined, S_custom} :
         configs = <<[GenerateConfig(ps, c, Undefined, Undefined)
                         EXCEPT !.packageName = name]>>

\* --- the options monoRepo, output, typedocOptions and linkPlugins ----------------
\* The parent of the packages, one package, a directory without any package, a file.
OptionPathSet == { <<Root>>, <<DirA>>, <<DirC>>, <<PathResolve(DirC, T_main)>> }

\* `monoRepo`: left out, false, true.
MonoRepoSet == { Undefined, <<FALSE>>, <<TRUE>> }

\* `output`: left out, the default value given by the caller, another directory.
OutputSet == { Undefined, S_docs, S_site }

\* `typedocOptions`: left out, without `out`, with an `out`, with the `out` "docs".
TypedocOptionsSet == { Undefined, [out |-> Undefined], [out |-> S_site \o S_api],
                       [out |-> S_docs] }

\* `typedocPath`: left out, a typedoc.json without `out`, one with `out`.
TypedocPathSet == { Undefined, PathResolve(Root, T_typedoc),
                    PathResolve(Root, T_typedocOut) }

\* `linkPlugins`: left out, one name, two names that exclude each other, a name
\* given twice and an unknown name.
LinkPluginsSet == { Undefined, <<S_es>>, <<S_dom, S_worker>>, <<S_es, S_site, S_es>> }

\* The directory walk of getFileList is explored for directories only: with
\* `monoRepo` set the path is a directory, or `monoRepo` is true and the check of
\* the directory comes first.
OptionsCase ==
    /\ \E gone \in {{}, {PathResolve(DirB, T_packagejson)}} :
         files = (BaseFiles \ gone)
                     \cup {PathResolve(Root, T_typedoc), PathResolve(Root, T_typedocOut)}
    /\ packages = (DirA :> PackageData(S_pa, ObjectExports(<<Entry(K_root,
                                                              StrTarget(T_srcIndex))>>),
                                      Undefined, Undefined))
                   @@ (DirB :> PackageB)
    /\ \E ps \in OptionPathSet, m \in MonoRepoSet, o \in OutputSet,
          to \in TypedocOptionsSet, tp \in TypedocPathSet, lp \in LinkPluginsSet :
         /\ m = <<FALSE>> => isDirectory(Root, ps[1])
         /\ configs = <<[GenerateConfig(ps, "types", Undefined, tp)
                            EXCEPT !.monoRepo = m, !.output = o,
                                   !.typedocOptions = to, !.linkPlugins = lp]>>

InitRest ==
    /\ cfgIdx = 1
    /\ configCopy = Undefined
    /\ pc = "config"
    /\ cwd = Root
    /\ origCWD = Root
    /\ pathIdx = 1
    /\ allEntryPoints = <<>>
    /\ allPackages = <<>>
    /\ pkgIdx = 1
    /\ pkgConfig = NewPkgConfig
    /\ basepath = Undefined
    /\ log = <<>>
    /\ mappingCalls = <<>>
    /\ typedocCalls = <<>>
    /\ optionsDoc = <<>>
    /\ outcome = <<>>

InitExports == ExportsCase /\ InitRest

InitPaths == PathsCase /\ InitRest

InitConfigs == ConfigsCase /\ InitRest

InitConditions == ConditionsCase /\ InitRest

InitLegacy == LegacyCase /\ InitRest

InitStray == StrayCase /\ InitRest

InitCollide == CollideCase /\ InitRest

InitKeys == KeysCase /\ InitRest

InitRecover == RecoverCase /\ InitRest

InitNamed == NamedCase /\ InitRest

InitOptions == OptionsCase /\ InitRest

Init ==
    \/ InitExports \/ InitPaths \/ InitConfigs \/ InitConditions \/ InitLegacy
    \/ InitStray \/ InitCollide \/ InitKeys \/ InitRecover \/ InitNamed
    \/ InitOptions

\* generateDocs for one package with any exports map.
SpecExports == InitExports /\ [][Next]_vars

\* generateDocs for several input paths.
SpecPaths == InitPaths /\ [][Next]_vars

\* generateDocs for one package whose exports name conditions.
SpecConditions == InitConditions /\ [][Next]_vars

\* generateDocs for several configs.
SpecConfigs == InitConfigs /\ [][Next]_vars

\* generateDocs for one package with legacy `types` / `typings` fields.
SpecLegacy == InitLegacy /\ [][Next]_vars

\* generateDocs for input paths that are no package and no script.
SpecStray == InitStray /\ [][Next]_vars

\* generateDocs for packages whose entry points derive the same module key.
SpecCollide == InitCollide /\ [][Next]_vars

\* generateDocs for entry points in plain, dotted and hidden directories.
SpecKeys == InitKeys /\ [][Next]_vars

\* generateDocs for one package some of whose exports keys are dropped.
SpecRecover == InitRecover /\ [][Next]_vars

\* generateDocs with and without the option packageName.
SpecNamed == InitNamed /\ [][Next]_vars

\* generateDocs with the options monoRepo, output, typedocOptions and linkPlugins.
SpecOptions == InitOptions /\ [][Next]_vars

Spec == Init /\ [][Next]_vars

(***************************************************************************)
(* Properties                                                              *)
(***************************************************************************)
\* The last loop turn of generateDocs ended with the call of generateTypedoc.
Generated == Len(outcome) > 0 /\ outcome[Len(outcome)].status = "generated"

\* The last loop turn of generateDocs ended with an error.
Aborted == Len(outcome) > 0 /\ outcome[Len(outcome)].status = "aborted"

\* The packages of the current config for which processMapping has returned.
MappedPackages ==
    IF pc = "mapping" \/ (pc = "done" /\ Generated) THEN 1..(pkgIdx - 1) ELSE {}

\* The addMapping calls made for one file.
CallsFor(filepath) == {k \in 1..Len(mappingCalls) : mappingCalls[k].filepath = filepath}

\* --- C1 ---------------------------------------------------------------------
\* The exports map of pj is {".": <declaration file>, "./sub": <declaration file>},
\* resolved under "types"; both files exist and are different files.
RootSubExports(pj) ==
    /\ pj.exportCondition = "types"
    /\ pj.data.exports.kind = "object"
    /\ Len(pj.data.exports.entries) = 2
    /\ {pj.data.exports.entries[n].key : n \in 1..2} = {K_root, K_sub}
    /\ \A n \in 1..2 :
         /\ pj.data.exports.entries[n].target.kind = "str"
         /\ regexIsDTSFile(pj.data.exports.entries[n].target.path)
         /\ PathResolve(pj.dirpath, pj.data.exports.entries[n].target.path) \in files
    /\ PathResolve(pj.dirpath, pj.data.exports.entries[1].target.path)
         # PathResolve(pj.dirpath, pj.data.exports.entries[2].target.path)

\* C1: for a package whose exports map is {".": root declaration file, "./sub": sub
\* declaration file} under "types", both files existing, processMapping records the
\* root file with the display name of exactly the package name, and the sub-path file
\* with the display name "<packageName>/sub".
C1_RootAndSubDisplayNames ==
    \A i \in MappedPackages :
        RootSubExports(allPackages[i]) =>
            \A n \in 1..2 :
                /\ CallsFor(PathResolve(allPackages[i].dirpath,
                                        allPackages[i].data.exports.entries[n].target.path)) # {}
                /\ \A k \in CallsFor(PathResolve(allPackages[i].dirpath,
                                        allPackages[i].data.exports.entries[n].target.path)) :
                       mappingCalls[k].packageName =
                           IF allPackages[i].data.exports.entries[n].key = K_root
                           THEN allPackages[i].data.name
                           ELSE allPackages[i].data.name \o SL \o S_sub

\* A package of that shape has been mapped: its root and its sub-path file were named.
C1_Witness ==
    /\ pc = "done"
    /\ \E i \in MappedPackages :
         /\ RootSubExports(allPackages[i])
         /\ \E k \in 1..Len(mappingCalls) : mappingCalls[k].packageName = S_pa
         /\ \E k \in 1..Len(mappingCalls) : mappingCalls[k].packageName = S_pa \o SL \o S_sub

\* --- C2 ---------------------------------------------------------------------
\* The instances made in the loop of processPath over the input paths whose
\* package.json holds an `exports` object. (An instance and its map are set when its
\* constructor returns; no later step changes them.)
ExportsPackages ==
    IF pc = "paths"
    THEN {i \in 1..Len(allPackages) : allPackages[i].data.exports.kind = "object"}
    ELSE {}

\* The type check of the active condition on one path.
PassesTypeCheck(pj, p) ==
    IF pj.exportCondition = "types" THEN isDTSFile(pj.dirpath, files, p)
    ELSE isFile(pj.dirpath, files, p)

\* What one key of the exports object leads to: the target the resolver gives under
\* the active condition; whether the target has the extension the condition asks
\* for; whether the key or the target holds a wildcard; and the absolute paths of
\* the files that pass the type check (the matches of the pattern for a wildcard
\* key, the target itself otherwise).
KeyRow(pj, key, target) ==
    LET Paths(candidates) ==
            {PathResolve(pj.dirpath, candidates[k]) :
                k \in {j \in 1..Len(candidates) : PassesTypeCheck(pj, candidates[j])}}
        Row(allowed, wildcard) ==
            [ key |-> key,
              target |-> target,
              wildcard |-> allowed /\ wildcard,
              paths |-> IF ~allowed THEN {}
                        ELSE IF wildcard THEN Paths(globSync(pj.dirpath, files, target))
                        ELSE Paths(<<target>>) ]
    IN  Row(/\ target # Undefined
            /\ IF pj.exportCondition = "types" THEN regexIsDTSFile(target)
               ELSE regexAllowedFiles(target),
            isGlob(key) \/ isGlob(target))

\* The rows of all keys of the exports object of pj, in exports-key order.
KeyTable(pj) ==
    [n \in 1..Len(pj.data.exports.entries) |->
        KeyRow(pj, pj.data.exports.entries[n].key,
               ResolveExports(pj.data, pj.data.exports.entries[n].key, {pj.exportCondition}))]

\* The entries of an ExportMap for one absolute path.
EntriesOf(map, filepath) == {k \in 1..Len(map) : map[k].filepath = filepath}

\* An entry made from a key and target without wildcard has no globEntryPath.
PlainEntriesHaveNoGlob(map, rows) ==
    \A k \in 1..Len(map) : \A n \in DOMAIN rows :
        (map[k].exportPath = rows[n].key /\ ~rows[n].wildcard)
            => map[k].globEntryPath = Undefined

\* The file is in the map exactly once, entered for the key of the row with that key
\* and its pattern unexpanded.
EnteredForKey(map, row, filepath) ==
    \E k \in 1..Len(map) :
        /\ EntriesOf(map, filepath) = {k}
        /\ map[k].exportPath = row.key
        /\ map[k].globEntryPath = row.target

\* C2 as stated: for every key that holds a wildcard (itself or its target), every
\* existing matched file that passes the type check is in the map exactly once, with
\* exportPath the unexpanded key and globEntryPath the unexpanded pattern; entries of
\* keys without wildcard have no globEntryPath.
C2_EveryMatchEnteredForItsKey ==
    \A i \in ExportsPackages : \E rows \in {KeyTable(allPackages[i])} :
        /\ \A n \in DOMAIN rows :
               rows[n].wildcard =>
                   \A f \in rows[n].paths : EnteredForKey(allPackages[i].exportMap, rows[n], f)
        /\ PlainEntriesHaveNoGlob(allPackages[i].exportMap, rows)

\* C2 (amended): the same for every matched file that no earlier key of the exports
\* object leads to; a matched file that an earlier key leads to is in the map exactly
\* once, as that earlier key entered it.
C2_EveryNewMatchEnteredForItsKey ==
    \A i \in ExportsPackages : \E rows \in {KeyTable(allPackages[i])} :
        /\ \A n \in DOMAIN rows :
               rows[n].wildcard =>
                   \A f \in rows[n].paths :
                       /\ Cardinality(EntriesOf(allPackages[i].exportMap, f)) = 1
                       /\ (\A m \in 1..(n - 1) : f \notin rows[m].paths)
                              => EnteredForKey(allPackages[i].exportMap, rows[n], f)
        /\ PlainEntriesHaveNoGlob(allPackages[i].exportMap, rows)

\* The wildcard key "./feat/*" was expanded to two files, each entered for that key.
C2_Witness ==
    \E i \in ExportsPackages : \E rows \in {KeyTable(allPackages[i])} :
        \E n \in DOMAIN rows :
            /\ rows[n].key = K_featStar
            /\ rows[n].wildcard
            /\ Cardinality(rows[n].paths) = 2
            /\ \A f \in rows[n].paths : EnteredForKey(allPackages[i].exportMap, rows[n], f)

\* --- C3 ---------------------------------------------------------------------
\* The pattern holds exactly one `*`.
OneStar(pattern) == Cardinality({j \in 1..Len(pattern) : pattern[j] = "*"}) = 1

\* The texts that can stand for the one `*` of the pattern: the pieces of the
\* concrete path of the fitting length (the path is given with or without "./").
Pieces(pattern, file) ==
    UNION { {SubSeq(file, a, a + n - 1) : a \in 1..(Len(file) - n + 1)} :
              n \in {m \in {Len(file) - Len(pattern) + 1, Len(file) - Len(pattern) + 3} :
                        m >= 0 /\ m <= Len(file)} }

\* The concrete file equals the pattern with `*` replaced by t.
PatternWith(pattern, t, file) ==
    ReplaceAllStar(pattern, t) \in {file, DOT \o SL \o file}

\* The entries of wildcard expansion whose pattern holds one `*`.
ExpandedEntries(pj) ==
    {k \in 1..Len(pj.exportMap) :
        pj.exportMap[k].globEntryPath # Undefined /\ OneStar(pj.exportMap[k].globEntryPath)}

\* C3: for every entry made by wildcard expansion of key K with a pattern P of one
\* `*`, the concrete file being P with `*` replaced by t, processMapping records the
\* file with the display name: the package name joined with K, every `*` of K
\* replaced by t.
C3_WildcardDisplayName ==
    \A i \in MappedPackages : \A k \in ExpandedEntries(allPackages[i]) :
        \A t \in Pieces(allPackages[i].exportMap[k].globEntryPath,
                        allPackages[i].exportMap[k].entryPath) :
            PatternWith(allPackages[i].exportMap[k].globEntryPath, t,
                        allPackages[i].exportMap[k].entryPath)
            => /\ CallsFor(allPackages[i].exportMap[k].filepath) # {}
               /\ \A c \in CallsFor(allPackages[i].exportMap[k].filepath) :
                      mappingCalls[c].packageName =
                          PathJoin(allPackages[i].data.name,
                                   ReplaceAllStar(allPackages[i].exportMap[k].exportPath, t))

\* Key "./feat/*" with pattern "./src/feat/*.d.ts" and file src/feat/a.d.ts was
\* recorded as "pa/feat/a".
C3_Witness ==
    \E i \in MappedPackages : \E k \in ExpandedEntries(allPackages[i]) :
        /\ allPackages[i].exportMap[k].exportPath = K_featStar
        /\ allPackages[i].exportMap[k].globEntryPath = T_featStar
        /\ PatternWith(T_featStar, S_a, allPackages[i].exportMap[k].entryPath)
        /\ \E c \in CallsFor(allPackages[i].exportMap[k].filepath) :
               mappingCalls[c].packageName = S_pa \o SL \o S_feat \o SL \o S_a

\* --- C4 ---------------------------------------------------------------------
\* The keys of the exports object that lead to the file, in exports-key order.
KeysLeadingTo(rows, filepath) == {n \in DOMAIN rows : filepath \in rows[n].paths}

\* The entry is the one the key of the row makes for the file.
EntryOfKey(pj, e, row) ==
    /\ e.exportPath = row.key
    /\ e.globEntryPath = IF row.wildcard THEN row.target ELSE Undefined
    /\ row.wildcard \/ e.entryPath = row.target
    /\ PathResolve(pj.dirpath, e.entryPath) = e.filepath

\* C4: in the ExportMap that create builds, under "types" and under any other
\* condition, every absolute path appears at most once, and the entry stored for a
\* path is the one of the first exports key that leads to it; later keys and glob
\* matches that resolve to the same path change nothing.
C4_FirstOccurrenceWins ==
    \A i \in ExportsPackages : \E rows \in {KeyTable(allPackages[i])} :
        /\ \A k1, k2 \in 1..Len(allPackages[i].exportMap) :
               allPackages[i].exportMap[k1].filepath = allPackages[i].exportMap[k2].filepath
                   => k1 = k2
        /\ \A k \in 1..Len(allPackages[i].exportMap) :
               \E leading \in {KeysLeadingTo(rows, allPackages[i].exportMap[k].filepath)} :
                   \E n \in leading :
                       /\ \A m \in leading : n <= m
                       /\ EntryOfKey(allPackages[i], allPackages[i].exportMap[k], rows[n])

\* Two keys lead to the same file, and the map holds it once, as the first one made it.
C4_Witness ==
    \E i \in ExportsPackages : \E rows \in {KeyTable(allPackages[i])} :
        \E k \in 1..Len(allPackages[i].exportMap) :
            /\ KeysLeadingTo(rows, allPackages[i].exportMap[k].filepath) = {1, 2}
            /\ EntriesOf(allPackages[i].exportMap, allPackages[i].exportMap[k].filepath) = {k}
            /\ allPackages[i].exportMap[k].exportPath = rows[1].key

\* --- C5 ---------------------------------------------------------------------
\* The keys whose resolved target is an existing `.js` file.
JsKeys(pj, rows) ==
    {n \in DOMAIN rows :
        /\ rows[n].target # Undefined
        /\ EndsWith(rows[n].target, S_js)
        /\ PathResolve(pj.dirpath, rows[n].target) \in files}

\* C5: a sub-path whose resolved target is an existing `.js` file has no entry in
\* the ExportMap when the active condition is "types", and the file has an entry
\* when the active condition is "import".
C5_JsTargetByCondition ==
    \A i \in ExportsPackages : \E rows \in {KeyTable(allPackages[i])} :
        \A n \in JsKeys(allPackages[i], rows) :
            /\ allPackages[i].exportCondition = "types" =>
                   EntriesOf(allPackages[i].exportMap,
                             PathResolve(allPackages[i].dirpath, rows[n].target)) = {}
            /\ allPackages[i].exportCondition = "import" =>
                   Cardinality(EntriesOf(allPackages[i].exportMap,
                                         PathResolve(allPackages[i].dirpath,
                                                     rows[n].target))) = 1

\* Under "import" a key with target "./index.js" was resolved and the file entered.
C5_Witness ==
    \E i \in ExportsPackages : \E rows \in {KeyTable(allPackages[i])} :
        /\ allPackages[i].exportCondition = "import"
        /\ \E n \in JsKeys(allPackages[i], rows) :
               /\ rows[n].target = T_indexJs
               /\ \E k \in 1..Len(allPackages[i].exportMap) :
                      /\ allPackages[i].exportMap[k].entryPath = T_indexJs
                      /\ allPackages[i].exportMap[k].exportPath = rows[n].key

\* Under "types" a key with target "./index.js" was resolved and the map stayed empty.
C5_WitnessTypes ==
    \E i \in ExportsPackages : \E rows \in {KeyTable(allPackages[i])} :
        /\ allPackages[i].exportCondition = "types"
        /\ JsKeys(allPackages[i], rows) # {}
        /\ Len(allPackages[i].exportMap) = 0

\* --- C6 ---------------------------------------------------------------------
\* The keys whose resolved target is itself the candidate that create discards for
\* failing the type check of the active condition: the target has the wrong
\* extension, or it is a path without wildcard that is not an existing file.
DiscardedKeys(pj, rows) ==
    {n \in DOMAIN rows :
        /\ rows[n].target # Undefined
        /\ rows[n].paths = {}
        /\ ~rows[n].wildcard}

\* The warnings of the instance that mention the key and the path.
WarningsFor(pj, key, path) ==
    {k \in 1..Len(pj.log) :
        /\ pj.log[k].level = "warn"
        /\ pj.log[k].exportPath = key
        /\ pj.log[k].path = path}

\* C6: every candidate path that create discards because it fails the type check of
\* the active condition causes a warning that mentions the sub-path key and the
\* discarded path.
C6_EveryDiscardIsWarned ==
    \A i \in ExportsPackages : \E rows \in {KeyTable(allPackages[i])} :
        \A n \in DiscardedKeys(allPackages[i], rows) :
            WarningsFor(allPackages[i], rows[n].key, rows[n].target) # {}

\* A target with the extension the condition asks for that is not an existing file
\* was discarded with a warning that mentions the key and the path.
C6_WarnedDiscard ==
    \E i \in ExportsPackages : \E rows \in {KeyTable(allPackages[i])} :
        \E n \in DiscardedKeys(allPackages[i], rows) :
            WarningsFor(allPackages[i], rows[n].key, rows[n].target) # {}

\* --- C7 ---------------------------------------------------------------------
\* <packageDir>/README.md
PackageReadme(pj) == pj.dirpath \o SL \o S_readme

\* The addMapping calls made with the display name of the package itself.
RootCalls(pj) ==
    {c \in 1..Len(mappingCalls) :
        /\ mappingCalls[c].packageName = pj.data.name
        /\ StartsWith(mappingCalls[c].filepath, pj.dirpath \o SL)}

\* More than one package is processed in the invocation and the package README exists.
RootReadmeExpected(pj) == Len(allPackages) > 1 /\ PackageReadme(pj) \in files

\* C7: for an entry whose display name is the package name, dmtModuleReadme gets
\* packageName -> <packageDir>/README.md if and only if more than one package is
\* processed in the invocation and that README exists.
C7_RootReadmeIffMultiplePackages ==
    \A i \in MappedPackages : \A c \in RootCalls(allPackages[i]) :
        /\ mappingCalls[c].readmePath =
               IF RootReadmeExpected(allPackages[i]) THEN PackageReadme(allPackages[i])
               ELSE Undefined
        /\ RootReadmeExpected(allPackages[i])
               <=> allPackages[i].data.name \in DOMAIN pkgConfig.dmtModuleReadme
        /\ RootReadmeExpected(allPackages[i])
               => pkgConfig.dmtModuleReadme[allPackages[i].data.name]
                      = PackageReadme(allPackages[i])

\* Two packages with a root export and a README each: the table holds both names,
\* each with the README of its own package.
C7_Witness ==
    /\ pc = "done"
    /\ Generated
    /\ {S_pa, S_pb} \subseteq DOMAIN pkgConfig.dmtModuleReadme
    /\ pkgConfig.dmtModuleReadme[S_pa] = DirA \o SL \o S_readme
    /\ pkgConfig.dmtModuleReadme[S_pb] = DirB \o SL \o S_readme

\* --- C8 ---------------------------------------------------------------------
\* The addMapping calls made for a file of the package with another display name
\* than the name of the package.
SubPathCalls(pj) ==
    {c \in 1..Len(mappingCalls) :
        /\ mappingCalls[c].packageName # pj.data.name
        /\ StartsWith(mappingCalls[c].filepath, pj.dirpath \o SL)}

\* C8: for an entry whose display name differs from the package name a README is
\* recorded only if README.md in the directory of the entry file is an existing file
\* other than the package README; an entry whose file lives in the package root
\* directory never gets the package README, for one package as for many.
C8_SubPathReadme ==
    \A i \in MappedPackages : \A c \in SubPathCalls(allPackages[i]) :
        /\ mappingCalls[c].readmePath # Undefined =>
               /\ mappingCalls[c].readmePath
                      = PathDirname(mappingCalls[c].filepath) \o SL \o S_readme
               /\ mappingCalls[c].readmePath \in files
               /\ mappingCalls[c].readmePath # PackageReadme(allPackages[i])
        /\ mappingCalls[c].packageName \in DOMAIN pkgConfig.dmtModuleReadme =>
               /\ pkgConfig.dmtModuleReadme[mappingCalls[c].packageName] \in files
               /\ pkgConfig.dmtModuleReadme[mappingCalls[c].packageName]
                      # PackageReadme(allPackages[i])
        /\ PathDirname(mappingCalls[c].filepath) = allPackages[i].dirpath =>
               /\ mappingCalls[c].readmePath = Undefined
               /\ mappingCalls[c].packageName \notin DOMAIN pkgConfig.dmtModuleReadme

\* A sub-path export in the package root directory, next to an existing package
\* README, was recorded without a README.
C8_Witness ==
    \E i \in MappedPackages : \E c \in SubPathCalls(allPackages[i]) :
        /\ PathDirname(mappingCalls[c].filepath) = allPackages[i].dirpath
        /\ PackageReadme(allPackages[i]) \in files
        /\ Len(allPackages) > 1
        /\ mappingCalls[c].readmePath = Undefined

\* A sub-path export was recorded with the README of the directory of its file.
C8_WitnessRecorded ==
    \E i \in MappedPackages : \E c \in SubPathCalls(allPackages[i]) :
        /\ mappingCalls[c].readmePath = DirA \o SL \o S_src \o SL \o S_feat \o SL \o S_readme
        /\ pkgConfig.dmtModuleReadme[mappingCalls[c].packageName] = mappingCalls[c].readmePath

\* --- C9 ---------------------------------------------------------------------
\* Every input path was processed and none of them gave an entry point.
NoEntryPointResolved ==
    /\ pathIdx > Len(Config.path)
    /\ Len(allEntryPoints) = 0

\* The invocation ended with the given error, without any mapping and without any
\* call of generateTypedoc.
AbortedWith(kind, path) ==
    /\ Aborted
    /\ outcome[Len(outcome)].error = ErrorOf(kind, path)
    /\ mappingCalls = <<>>
    /\ typedocCalls = <<>>
    /\ pkgConfig.dmtModuleNames = EmptyObject
    /\ pkgConfig.dmtModuleReadme = EmptyObject

\* C9: when the entry points resolved over all input paths are none, processPath
\* returns the "No entry points found" error: the invocation aborts, no mapping is
\* done and generateTypedoc is not called.
C9_NoEntryPointsAborts ==
    /\ (pc \in {"mapping", "done"} /\ NoEntryPointResolved) =>
           (pc = "done" /\ AbortedWith("noEntryPoints", <<>>))
    /\ \A t \in 1..Len(typedocCalls) : Len(typedocCalls[t].entryPoints) > 0

\* A single package with an empty exports object and no types / typings ended the
\* invocation with the error.
C9_Witness ==
    /\ pc = "done"
    /\ Config.path = <<DirA>>
    /\ packages[DirA].exports.kind = "object"
    /\ Len(packages[DirA].exports.entries) = 0
    /\ packages[DirA].types = Undefined
    /\ packages[DirA].typings = Undefined
    /\ Len(allPackages) = 1
    /\ AbortedWith("noEntryPoints", <<>>)

\* --- C10 --------------------------------------------------------------------
\* The directory an input stands for: itself, or the directory of the file.
InputDirname(p) ==
    IF isDirectory(cwd, p) THEN PathResolve(cwd, p) ELSE PathDirname(PathResolve(cwd, p))

\* The inputs that are a directory or a package.json path from whose directory no
\* package.json can be loaded, by index.
PackageLessInputs ==
    {k \in 1..Len(Config.path) :
        /\ isDirectory(cwd, Config.path[k]) \/ EndsWith(Config.path[k], S_packagejson)
        /\ ~HasPackage(files, packages, InputDirname(Config.path[k]))}

\* The error names the directory of a package-less input, either as returned by
\* processPath or, for a package.json path that does not exist, as logged by the
\* validation of the config.
NamesPackageLessInput(k) ==
    \/ /\ outcome[Len(outcome)].error = ErrorOf("noPackageJson", InputDirname(Config.path[k]))
       /\ \A j \in PackageLessInputs : k <= j
    \/ /\ outcome[Len(outcome)].error = ErrorOf("validation", <<>>)
       /\ \E l \in 1..Len(log) : log[l] = LogError("pathNotDirOrFile", Config.path[k])

\* C10: when no package.json can be loaded from the directory of an input that is a
\* directory or a package.json path the whole invocation aborts with an error naming that input: no
\* entry point of the other inputs is used, no mapping is done, generateTypedoc is
\* not called; the input is never skipped.
C10_MissingPackageJsonAborts ==
    /\ (pc = "done" /\ PackageLessInputs # {}) =>
           /\ Aborted
           /\ mappingCalls = <<>>
           /\ typedocCalls = <<>>
           /\ pkgConfig.entryPoints = <<>>
           /\ \E k \in PackageLessInputs : NamesPackageLessInput(k)
    /\ (pc = "mapping" => PackageLessInputs = {})

\* A package with entry points came first and an input without a package.json that
\* can be loaded second: the invocation aborted naming the directory of the second.
C10_Witness ==
    /\ pc = "done"
    /\ Len(Config.path) = 2
    /\ Len(allPackages) = 1
    /\ Len(allEntryPoints) > 0
    /\ PackageLessInputs = {2}
    /\ AbortedWith("noPackageJson", InputDirname(Config.path[2]))

\* --- C11 --------------------------------------------------------------------
\* The directories above path p.
Ancestors(p) == {SubSeq(p, 1, i - 1) : i \in {j \in 2..Len(p) : p[j] = "/"}}

\* The directories that hold every one of the paths.
CommonDirs(paths) ==
    {d \in Ancestors(paths[1]) : \A i \in 1..Len(paths) : StartsWith(paths[i], d \o SL)}

\* b is the deepest directory that holds every one of the paths.
LongestCommonDir(b, paths) ==
    /\ b \in CommonDirs(paths)
    /\ \A d \in CommonDirs(paths) : Len(d) <= Len(b)

\* The module keys addMapping derives for a file from a base path.
ModuleKeys(base, filepath) ==
    DOMAIN addMapping(NewPkgConfig, base, filepath, filepath, Undefined).dmtModuleNames

\* The mapping of the packages of the invocation is under way or done.
Mapping == (pc = "mapping" \/ (pc = "done" /\ Generated)) /\ Len(allPackages) > 0

\* C11: the basepath from which every module key of an invocation is derived is the
\* common path of all entry points of all input paths, packages and bare files
\* together; it is computed once, after every input path was resolved, and every
\* addMapping call of the invocation uses it.
C11_OneCommonBasepath ==
    /\ [](Mapping =>
            /\ LongestCommonDir(basepath, allEntryPoints)
            /\ \A c \in 1..Len(mappingCalls) :
                   /\ ModuleKeys(basepath, mappingCalls[c].filepath) # {}
                   /\ ModuleKeys(basepath, mappingCalls[c].filepath)
                          \subseteq DOMAIN pkgConfig.dmtModuleNames)
    /\ [][basepath' # basepath =>
              (pc = "paths" /\ pathIdx > Len(Config.path) /\ pc' = "mapping")]_vars

\* Two packages with the entry points /r/a/src/index.d.ts and /r/b/src/index.d.ts
\* were mapped from the basepath /r.
C11_Witness ==
    /\ pc = "done"
    /\ Generated
    /\ allEntryPoints = <<PathResolve(DirA, T_srcIndex), PathResolve(DirB, T_srcIndex)>>
    /\ Len(mappingCalls) = 2
    /\ basepath = Root

\* --- C12 --------------------------------------------------------------------
\* processPath and the operations it calls have finished: between two turns of its
\* loops, at its return to generateDocs, and at the end of generateDocs.
OperationFinished == pc \in {"paths", "mapping", "returned", "done"}

\* C12: the working directory is restored on every exit path: when generateDocs,
\* processPath (per input path) and ExportMapSupport.processMapping finish, by a
\* normal return or by an error return, the working directory is the one at entry.
C12_CwdRestoredOnEveryExit == OperationFinished => cwd = origCWD

\* processPath returned its error from inside the directory of the input path.
C12_ReturnedInsideInputDirectory ==
    /\ pc = "returned"
    /\ outcome[Len(outcome)].error.kind = "noPackageJson"
    /\ cwd = outcome[Len(outcome)].error.path
    /\ cwd # origCWD

\* --- C13 --------------------------------------------------------------------
\* An option file is given and does not load.
OptionLoadFails(p) == p # Undefined /\ ~LoadsJSON(origCWD, files, p)

\* One of the fatal conditions holds of the config of the current invocation: the
\* config fails validation, an option file does not load, an input lacks its
\* package.json, or all inputs were resolved and gave no entry point.
FatalCondition ==
    \/ validateConfig(origCWD, files, Config).kind # "none"
    \/ OptionLoadFails(Config.tsconfigPath)
    \/ OptionLoadFails(Config.typedocPath)
    \/ \E k \in 1..Len(Config.path) :
           /\ isDirectory(origCWD, Config.path[k]) \/ EndsWith(Config.path[k], S_packagejson)
           /\ ~HasPackage(files, packages,
                          IF isDirectory(origCWD, Config.path[k])
                          THEN PathResolve(origCWD, Config.path[k])
                          ELSE PathDirname(PathResolve(origCWD, Config.path[k])))
    \/ pathIdx > Len(Config.path) /\ Len(allEntryPoints) = 0

\* C13: every fatal condition (config validation failure, tsconfig / typedoc option
\* load failure, missing package.json, zero entry points) is detected before any
\* mapping and before the generator is invoked: an invocation that is fatal makes no
\* addMapping call and no generateTypedoc call.
C13_FatalBeforeMappingAndGenerator ==
    /\ []((pc \in {"returned", "done"} /\ Aborted) =>
             /\ FatalCondition
             /\ Len(typedocCalls) = cfgIdx - 1
             /\ (cfgIdx = 1 => mappingCalls = <<>>))
    /\ []((pc \in {"mapping", "done"} /\ FatalCondition) => Aborted)
    /\ [][(mappingCalls' # mappingCalls \/ typedocCalls' # typedocCalls)
              => ~FatalCondition]_vars

\* The second config of a run names a tsconfig that does not load: its invocation was
\* aborted after the first one was generated, and added no call.
C13_Witness ==
    /\ pc = "done"
    /\ Aborted
    /\ cfgIdx = 2
    /\ outcome[2].error.kind = "tsconfigLoad"
    /\ Len(typedocCalls) = 1
    /\ Len(mappingCalls) > 0
    /\ \A c \in 1..Len(mappingCalls) :
           ModuleKeys(basepath, mappingCalls[c].filepath)
               \subseteq DOMAIN typedocCalls[1].dmtModuleNames

\* --- C14 --------------------------------------------------------------------
\* The loop of processPath over the input paths from path k on, for a config that is
\* processed alone: the error returned, or the entry points and packages collected.
RECURSIVE PathLoopAlone(_, _, _, _)
PathLoopAlone(config, k, entryPoints, pkgs) ==
    LET nextPath == config.path[k]
        Package(dirname) ==
            IF ~HasPackage(files, packages, dirname)
            THEN [error |-> ErrorOf("noPackageJson", dirname), entryPoints |-> <<>>,
                  packages |-> <<>>, isPackage |-> TRUE]
            ELSE LET Collect(packageJson) ==
                         PathLoopAlone(config, k + 1,
                                       SetAddAll(entryPoints, packageJson.entryPoints),
                                       Append(pkgs, packageJson))
                 IN  Collect(PackageJson(dirname, files, packages[dirname],
                                         PackageFilepath(dirname), config.exportCondition))
    IN  IF k > Len(config.path)
        THEN [error |-> NoError, entryPoints |-> entryPoints, packages |-> pkgs,
              isPackage |-> Len(pkgs) > 0]
        ELSE IF isDirectory(origCWD, nextPath)
        THEN Package(PathResolve(origCWD, nextPath))
        ELSE IF EndsWith(nextPath, S_packagejson)
        THEN Package(PathDirname(PathResolve(origCWD, nextPath)))
        ELSE IF isFile(origCWD, files, nextPath) /\ regexAllowedFiles(nextPath)
        THEN PathLoopAlone(config, k + 1,
                           SetAdd(entryPoints, PathResolve(origCWD, nextPath)), pkgs)
        ELSE PathLoopAlone(config, k + 1, entryPoints, pkgs)

\* The loop of processPath over the packages, for a config that is processed alone.
RECURSIVE MappingLoopAlone(_, _, _, _)
MappingLoopAlone(st, base, pkgs, k) ==
    IF k > Len(pkgs) THEN st
    ELSE MappingLoopAlone(processMapping(st, base, files, pkgs[k], Len(pkgs) > 1),
                          base, pkgs, k + 1)

\* How generateDocs ends for a config that is processed alone.
OutcomeAlone(config) ==
    LET Failed(err) == [status |-> "aborted", error |-> err, pkgConfig |-> NewPkgConfig]
        Final(r, st) ==
            [status |-> "generated", error |-> NoError,
             pkgConfig |-> [st.cfg EXCEPT
                              !.isPackage = r.isPackage,
                              !.entryPoints = r.entryPoints,
                              !.entryPointsDTS = \A i \in 1..Len(r.entryPoints) :
                                                     regexIsDTSFile(r.entryPoints[i])]]
        Resolved(r) ==
            IF r.error.kind # "none" THEN Failed(r.error)
            ELSE IF Len(r.entryPoints) = 0 THEN Failed(ErrorOf("noEntryPoints", <<>>))
            ELSE Final(r, MappingLoopAlone(
                              [cfg |-> CreatePkgConfig(CopyWithDefaults(config),
                                                       TypedocJSON(origCWD, config)),
                               calls |-> <<>>],
                              commonPath(r.entryPoints), r.packages, 1))
    IN  IF validateConfig(origCWD, files, config).kind # "none"
        THEN Failed(ErrorOf("validation", <<>>))
        ELSE IF processOptions(origCWD, files, config).kind # "none"
        THEN Failed(processOptions(origCWD, files, config))
        ELSE Resolved(PathLoopAlone(config, 1, <<>>, <<>>))

\* C14: given a list of configs, the outcome of each config (aborted or generated,
\* its entryPoints, dmtModuleNames and dmtModuleReadme) is the one it has when
\* processed alone, whatever the configs before it did: failed, or left state behind.
C14_EachConfigAsAlone ==
    pc = "done" =>
        \A k \in 1..Len(configs) :
            /\ k <= Len(outcome)
            /\ outcome[k] = OutcomeAlone(configs[k])

\* Every config that generateDocs did process ended as it does alone.
C14_ProcessedAsAlone ==
    pc = "done" => \A k \in 1..Len(outcome) : outcome[k] = OutcomeAlone(configs[k])

\* The second config of a list ended as it does alone, after a first that left a
\* basepath and tables of its own behind.
C14_SecondAfterFirst ==
    /\ pc = "done"
    /\ Len(outcome) = 2
    /\ outcome[1].status = "generated"
    /\ outcome[2].status = "generated"
    /\ outcome[1].pkgConfig.dmtModuleNames # outcome[2].pkgConfig.dmtModuleNames
    /\ outcome[2] = OutcomeAlone(configs[2])

\* --- C16 --------------------------------------------------------------------
\* The packages whose exports have sub-path keys.
SubPathPackages ==
    {i \in 1..Len(allPackages) :
        /\ allPackages[i].data.exports.kind = "object"
        /\ Len(allPackages[i].data.exports.entries) > 0
        /\ allPackages[i].data.exports.entries[1].key[1] = "."}

\* The target of key exportPath selects entryPath by the condition itself: it is the
\* string of the key, or the value of the object under that condition.
SelectedByCondition(pj, exportPath, entryPath) ==
    \E n \in 1..Len(pj.data.exports.entries) :
        LET target == pj.data.exports.entries[n].target
        IN  /\ pj.data.exports.entries[n].key = exportPath
            /\ \/ target.kind = "str" /\ target.path = entryPath
               \/ /\ target.kind = "cond"
                  /\ \E c \in 1..Len(target.conds) :
                         /\ target.conds[c].cond = pj.exportCondition
                         /\ target.conds[c].path = entryPath

\* C16: a sub-path key contributes an entry only when its target is selected by the
\* requested export condition itself; a target reachable only through `default` or
\* another condition the resolver adds never becomes an entry of the ExportMap.
C16_OnlyRequestedCondition ==
    \A i \in SubPathPackages : \A k \in 1..Len(allPackages[i].exportMap) :
        SelectedByCondition(allPackages[i], allPackages[i].exportMap[k].exportPath,
                            allPackages[i].exportMap[k].entryPath)

\* An entry whose target is the value of the requested condition.
C16_SelectedEntry ==
    \E i \in SubPathPackages :
        /\ Len(allPackages[i].exportMap) = 1
        /\ allPackages[i].data.exports.entries[1].target.kind = "cond"
        /\ SelectedByCondition(allPackages[i], allPackages[i].exportMap[1].exportPath,
                               allPackages[i].exportMap[1].entryPath)

\* --- C17 --------------------------------------------------------------------
\* The exportPath of the entry of a string `exports`.
\* The packages whose `exports` is a single string.
StringPackages ==
    {i \in 1..Len(allPackages) : allPackages[i].data.exports.kind = "string"}

\* C17: a string `exports` naming an existing allowed source file gives, for the
\* export condition "default", an ExportMap of exactly one entry for that file with
\* exportPath "exports"; for any other export condition it gives no ExportMap.
C17_StringExports ==
    \A i \in StringPackages :
        LET pj == allPackages[i]
            target == pj.data.exports.path
        IN  IF pj.exportCondition # "default" THEN pj.exportMap = <<>>
            ELSE (isFile(pj.dirpath, files, target) /\ regexAllowedFiles(target)) =>
                     /\ Len(pj.exportMap) = 1
                     /\ pj.exportMap[1].filepath = PathResolve(pj.dirpath, target)
                     /\ pj.exportMap[1].exportPath = <<"e", "x", "p", "o", "r", "t", "s">>

\* A string `exports` under another condition than "default" gave no ExportMap.
C17_NoMapForOtherCondition ==
    \E i \in StringPackages :
        /\ allPackages[i].exportCondition # "default"
        /\ allPackages[i].exportMap = <<>>


(***************************************************************************)
(* C18                                                                     *)
(***************************************************************************)
\* Packages whose `exports` is an object of conditions without sub-path keys.
FlatPackages ==
    {i \in 1..Len(allPackages) :
        LET ex == allPackages[i].data.exports
        IN  /\ ex.kind = "object"
            /\ Len(ex.entries) > 0
            /\ \A k \in 1..Len(ex.entries) : ex.entries[k].key[1] # "."}

\* The string values of a flat object keyed by the condition.
ValuesKeyedBy(ex, condition) ==
    {ex.entries[k].target.path : k \in {j \in 1..Len(ex.entries) :
        ConditionOfKey(ex.entries[j].key) = condition /\ ex.entries[j].target.kind = "str"}}

\* C18: for a package whose `exports` is a flat object of conditions, the value keyed
\* by the active export condition, when it passes the type check, is the single entry
\* of the package's ExportMap.
C18_FlatObjectResolved ==
    \A i \in FlatPackages :
        LET pj == allPackages[i]
        IN  \A target \in ValuesKeyedBy(pj.data.exports, pj.exportCondition) :
                (PassesTypeCheck(pj, target) /\ regexAllowedFiles(target)) =>
                    /\ Len(pj.exportMap) = 1
                    /\ pj.exportMap[1].filepath = PathResolve(pj.dirpath, target)

\* A flat object never yields an entry: every key is looked up as a sub-path.
C18_FlatObjectYieldsNothing ==
    \A i \in FlatPackages : allPackages[i].exportMap = <<>>

C18_FlatPackageBuilt ==
    \E i \in FlatPackages :
        \E target \in ValuesKeyedBy(allPackages[i].data.exports, allPackages[i].exportCondition) :
            PassesTypeCheck(allPackages[i], target) /\ regexAllowedFiles(target)

(***************************************************************************)
(* C19                                                                     *)
(***************************************************************************)
\* Packages without an exports object, or whose exports resolved to zero entries.
LegacyPackages == {i \in 1..Len(allPackages) : allPackages[i].exportMap = <<>>}

\* The legacy field consulted: `types`, or `typings` when `types` is not a string.
LegacyField(data) == IF data.types # Undefined THEN data.types ELSE data.typings

\* The entry points the legacy fallback is to give a package.
LegacyEntryPoints(pj) ==
    IF /\ pj.exportCondition = "types"
       /\ LegacyField(pj.data) # Undefined
       /\ isDTSFile(pj.dirpath, files, LegacyField(pj.data))
    THEN <<PathResolve(pj.dirpath, LegacyField(pj.data))>>
    ELSE <<>>

\* The calls of addMapping for the entry point of package i.
LegacyCalls(i) ==
    {c \in 1..Len(mappingCalls) :
        \E k \in 1..Len(allPackages[i].entryPoints) :
            mappingCalls[c].filepath = allPackages[i].entryPoints[k]}

\* C19: a package without an ExportMap entry contributes, under the condition
\* "types", the declaration file named by `types`, or by `typings` when `types` is
\* not a string, and nothing under any other condition; it is at most one entry
\* point; once mapped its display name is the package name; and an invocation that
\* got such an entry point is not aborted.
C19_LegacyFallback ==
    \A i \in LegacyPackages :
        /\ allPackages[i].entryPoints = LegacyEntryPoints(allPackages[i])
        /\ Len(allPackages[i].entryPoints) <= 1
        /\ allPackages[i].exportCondition # "types" => allPackages[i].entryPoints = <<>>
        /\ \A c \in LegacyCalls(i) : mappingCalls[c].packageName = allPackages[i].data.name
        /\ (pc = "done" /\ allPackages[i].entryPoints # <<>>) =>
               /\ outcome[Len(outcome)].status = "generated"
               /\ Cardinality(LegacyCalls(i)) = 1
               /\ \E k \in 1..Len(allEntryPoints) :
                      allEntryPoints[k] = allPackages[i].entryPoints[1]

\* A package whose `types` is not a string has been mapped from `typings`.
C19_Witness ==
    \E i \in LegacyPackages :
        /\ pc = "done"
        /\ allPackages[i].data.types = Undefined
        /\ allPackages[i].data.typings # Undefined
        /\ allPackages[i].entryPoints = <<PathResolve(allPackages[i].dirpath,
                                                      allPackages[i].data.typings)>>
        /\ LegacyCalls(i) # {}

\* A package with a `types` declaration file under another condition gives nothing.
C19_NotUsedForOtherCondition ==
    \E i \in LegacyPackages :
        /\ allPackages[i].exportCondition # "types"
        /\ allPackages[i].data.types # Undefined
        /\ isDTSFile(allPackages[i].dirpath, files, allPackages[i].data.types)
        /\ allPackages[i].entryPoints = <<>>

(***************************************************************************)
(* C20                                                                     *)
(***************************************************************************)
PackageLike(p) == isDirectory(Root, p) \/ EndsWith(p, S_packagejson)

AllowedFile(p) == isFile(Root, files, p) /\ regexAllowedFiles(p)

\* The inputs of the config that are neither package-like nor an existing file with
\* an allowed extension.
StrayInputs == {k \in 1..Len(Config.path) : ~PackageLike(Config.path[k])
                                            /\ ~AllowedFile(Config.path[k])}

\* The stray inputs that are no existing declaration file.
RejectedInputs ==
    {k \in StrayInputs : ~(isFile(Root, files, Config.path[k])
                           /\ regexIsDTSFile(Config.path[k]))}

ErrorNames(p) == \E l \in 1..Len(log) : log[l].level = "error" /\ log[l].path = p

\* Input j has been processed: a file is an entry point, a package has been built.
InputProcessed(j) ==
    IF PackageLike(Config.path[j])
    THEN \E i \in 1..Len(allPackages) :
             allPackages[i].dirpath = (IF isDirectory(Root, Config.path[j])
                                       THEN Config.path[j]
                                       ELSE PathDirname(Config.path[j]))
    ELSE \E e \in 1..Len(allEntryPoints) : allEntryPoints[e] = Config.path[j]

\* No error names a stray input, it is no entry point, and the inputs the loop has
\* passed are processed.
StrayIgnored(k) ==
    /\ ~ErrorNames(Config.path[k])
    /\ \A e \in 1..Len(allEntryPoints) : allEntryPoints[e] # Config.path[k]
    /\ pc # "config" =>
           \A j \in (1..(pathIdx - 1)) \ StrayInputs : InputProcessed(j)

C20_Rejected ==
    /\ pc = "done"
    /\ RejectedInputs # {}
    /\ \E j \in 1..Len(Config.path) : Config.path[j] = DirA
    /\ Aborted

(***************************************************************************)
(* C21                                                                     *)
(***************************************************************************)
\* The place of a file among the entry points of the packages: the package in input
\* order, then the entry in the order of its ExportMap.
PlacesOf(filepath) ==
    UNION { {<<i, k>> : k \in {j \in 1..Len(allPackages[i].entryPoints) :
                                  allPackages[i].entryPoints[j] = filepath}}
            : i \in 1..Len(allPackages) }

PlaceBefore(a, b) == a[1] < b[1] \/ (a[1] = b[1] /\ a[2] < b[2])

\* The addMapping calls that write module key `key`.
WritersOf(key) ==
    {c \in 1..Len(mappingCalls) : key \in ModuleKeys(basepath, mappingCalls[c].filepath)}

LastOf(S) == CHOOSE x \in S : \A y \in S : y <= x

ErrorLogged == \E l \in 1..Len(log) : log[l].level = "error"

\* C21: the addMapping calls are made in insertion order, packages in input-path
\* order and entries in ExportMap order; each module key holds the display name of the
\* last call that derives it; and a key derived twice raises no error.
C21_LastWriterWins ==
    Mapping =>
        /\ \A c, d \in 1..Len(mappingCalls) :
               c < d => \E a \in PlacesOf(mappingCalls[c].filepath),
                           b \in PlacesOf(mappingCalls[d].filepath) : PlaceBefore(a, b)
        /\ \A key \in DOMAIN pkgConfig.dmtModuleNames :
               /\ WritersOf(key) # {}
               /\ pkgConfig.dmtModuleNames[key] = mappingCalls[LastOf(WritersOf(key))].packageName
        /\ ~ErrorLogged
        /\ pc = "done" => outcome[Len(outcome)].status = "generated"

\* Two entries of one package gave one module key under two display names.
C21_Witness ==
    /\ pc = "done"
    /\ Generated
    /\ \E key \in DOMAIN pkgConfig.dmtModuleNames :
           \E c, d \in WritersOf(key) :
               c < d /\ mappingCalls[c].packageName # mappingCalls[d].packageName

(***************************************************************************)
(* C22                                                                     *)
(***************************************************************************)
\* The part of s before its first "." (all of s when it holds none).
UpToFirstDot(s) ==
    LET dots == {i \in 1..Len(s) : s[i] = "."}
    IN  IF dots = {} THEN s
        ELSE SubSeq(s, 1, (CHOOSE i \in dots : \A j \in dots : i <= j) - 1)

\* The path of a file below directory base, relative to it.
Below(base, filepath) == SubSeq(filepath, Len(base) + 2, Len(filepath))

\* The module key of a file below the basepath: the file name up to its first "."
\* for a file directly in the basepath, else the relative path up to its first "."
\* without a trailing "/index".
ExpectedKey(base, filepath) ==
    LET Key(rel) ==
            IF \A i \in 1..Len(rel) : rel[i] # "/" THEN UpToFirstDot(rel)
            ELSE IF EndsWith(UpToFirstDot(rel), SL \o S_index)
                 THEN SubSeq(UpToFirstDot(rel), 1, Len(UpToFirstDot(rel)) - Len(S_index) - 1)
                 ELSE UpToFirstDot(rel)
    IN  Key(Below(base, filepath))

\* The entry points of the processed packages, each with the display name computed
\* for it: the package name for a legacy entry, the resolved name for an entry of the
\* ExportMap (none when its wildcard cannot be resolved).
NamedEntries ==
    UNION { { [filepath |-> allPackages[i].entryPoints[k],
               name |-> IF allPackages[i].exportMap = <<>> THEN allPackages[i].data.name
                        ELSE ResolvedPackageName(allPackages[i].data.name,
                                                 allPackages[i].exportMap[k]).name]
              : k \in 1..Len(allPackages[i].entryPoints) }
            : i \in 1..Len(allPackages) }

\* C22: every key of dmtModuleNames is derived from the file of an entry point of a
\* processed package that is among the entry points of the invocation, its value is
\* the display name of such an entry, every key of dmtModuleReadme is such a display
\* name, and every addMapping call is made for such an entry: no entry stems from a
\* bare-file input or from any other file.
C22_NoOrphanEntries ==
    /\ \A key \in DOMAIN pkgConfig.dmtModuleNames :
           \E e \in NamedEntries :
               /\ key = ExpectedKey(basepath, e.filepath)
               /\ pkgConfig.dmtModuleNames[key] = e.name
               /\ \E n \in 1..Len(allEntryPoints) : allEntryPoints[n] = e.filepath
    /\ \A name \in DOMAIN pkgConfig.dmtModuleReadme :
           \E e \in NamedEntries : e.name = name
    /\ \A c \in 1..Len(mappingCalls) :
           \E e \in NamedEntries : /\ e.filepath = mappingCalls[c].filepath
                                   /\ e.name = mappingCalls[c].packageName

\* A package and a bare file were given; the tables hold the package's entries only.
C22_Witness ==
    /\ pc = "done"
    /\ Generated
    /\ \E n \in 1..Len(allEntryPoints) : allEntryPoints[n] = PathResolve(DirC, T_main)
    /\ DOMAIN pkgConfig.dmtModuleNames # {}
    /\ DOMAIN pkgConfig.dmtModuleReadme # {}
    /\ Cardinality(DOMAIN pkgConfig.dmtModuleNames) < Len(allEntryPoints)

(***************************************************************************)
(* C23                                                                     *)
(***************************************************************************)
\* The extensions of a declaration file, and of a source file.
DeclarationExtensions ==
    { <<".", "d", ".", "t", "s">>, <<".", "d", ".", "m", "t", "s">>,
      <<".", "d", ".", "c", "t", "s">> }

SourceExtensions ==
    { <<".", "j", "s">>, <<".", "m", "j", "s">>, <<".", "t", "s">>, <<".", "m", "t", "s">> }

HasExtension(p, exts) ==
    \E x \in exts : Len(p) >= Len(x) /\ SubSeq(p, Len(p) - Len(x) + 1, Len(p)) = x

\* C23: every key of the ExportMap of a package is an existing file whose extension
\* is the one the condition asks for: a declaration file under "types", a source file
\* under any other condition; the files of a wildcard expansion included.
C23_KeysPassFileTypePredicate ==
    \A i \in 1..Len(allPackages) :
        \A k \in 1..Len(allPackages[i].exportMap) :
            /\ allPackages[i].exportMap[k].filepath \in files
            /\ HasExtension(allPackages[i].exportMap[k].filepath,
                            IF allPackages[i].exportCondition = "types"
                            THEN DeclarationExtensions ELSE SourceExtensions)

\* A wildcard was expanded under "import" beside a key whose script exists.
C23_Witness ==
    \E i \in 1..Len(allPackages) :
        /\ allPackages[i].exportCondition = "import"
        /\ \E k \in 1..Len(allPackages[i].exportMap) :
               allPackages[i].exportMap[k].globEntryPath # Undefined
        /\ \E k \in 1..Len(allPackages[i].exportMap) :
               allPackages[i].exportMap[k].globEntryPath = Undefined

(***************************************************************************)
(* C24                                                                     *)
(***************************************************************************)
\* The module key as the documentation of addMapping words it: the file name up to
\* its first "." for a file directly in the basepath; else the relative path with the
\* extension of the file removed and without a trailing "/index".
DocumentedKey(base, filepath) ==
    LET Strip(s) == IF EndsWith(s, SL \o S_index)
                    THEN SubSeq(s, 1, Len(s) - Len(S_index) - 1) ELSE s
        InDir(rel, slash) ==
            Strip(SubSeq(rel, 1, slash) \o UpToFirstDot(SubSeq(rel, slash + 1, Len(rel))))
        Key(rel, slashes) ==
            IF slashes = {} THEN UpToFirstDot(rel)
            ELSE InDir(rel, CHOOSE i \in slashes : \A j \in slashes : j <= i)
    IN  Key(Below(base, filepath), {i \in 1..Len(Below(base, filepath)) :
                                       Below(base, filepath)[i] = "/"})

\* C24: the keys of dmtModuleNames are the documented module keys of the files
\* addMapping was called for, a file whose key is empty excepted.
C24_ModuleKeyDerivation ==
    Mapping =>
        DOMAIN pkgConfig.dmtModuleNames =
            {DocumentedKey(basepath, mappingCalls[c].filepath) : c \in 1..Len(mappingCalls)}
                \ {<<>>}

\* The keys are cut at the first "." of the relative path, directories included.
C24_KeysCutAtFirstDot ==
    Mapping =>
        DOMAIN pkgConfig.dmtModuleNames =
            {ExpectedKey(basepath, mappingCalls[c].filepath) : c \in 1..Len(mappingCalls)}
                \ {<<>>}

\* A file in a dotted directory was mapped.
C24_DottedDirectoryMapped ==
    /\ pc = "done"
    /\ Generated
    /\ \E c \in 1..Len(mappingCalls) :
           mappingCalls[c].filepath = PathResolve(DirA, T_dottedDir)

(***************************************************************************)
(* C25                                                                     *)
(***************************************************************************)
\* The entry stems from a wildcard key whose pattern, `*` replaced by any text, is
\* not the path of the file.
Unmatched(e) ==
    /\ isGlob(e.exportPath)
    /\ e.globEntryPath # Undefined
    /\ \A t \in Pieces(e.globEntryPath, e.entryPath) :
           ~PatternWith(e.globEntryPath, t, e.entryPath)

\* The keys of the exports object that are dropped: the resolver gives nothing, or no
\* file of the key passes the type check.
DroppedKeys(rows) == {n \in DOMAIN rows : rows[n].paths = {}}

\* C25: a key the resolver fails on and a target of the wrong file type are dropped
\* alone, the ExportMap holds the files of all other keys; an entry whose wildcard
\* cannot be matched is passed over alone, every other entry is mapped; the
\* invocation is aborted only when no entry point is left at all; and no exception
\* leaves processMapping.
C25_RecoverableNeverRaise ==
    /\ \A i \in 1..Len(allPackages) : \E rows \in {KeyTable(allPackages[i])} :
           {allPackages[i].exportMap[k].filepath : k \in 1..Len(allPackages[i].exportMap)}
               = UNION {rows[n].paths : n \in DOMAIN rows}
    /\ \A i \in MappedPackages : \A k \in 1..Len(allPackages[i].exportMap) :
           (CallsFor(allPackages[i].exportMap[k].filepath) = {})
               <=> Unmatched(allPackages[i].exportMap[k])
    /\ Aborted => /\ outcome[Len(outcome)].error.kind = "noEntryPoints"
                  /\ allEntryPoints = <<>>
    /\ pc # "thrown"

\* An entry with an unmatched wildcard was passed over and an entry after it was
\* mapped.
C25_Witness ==
    /\ pc = "done"
    /\ Generated
    /\ \E k \in 1..Len(allPackages[1].exportMap) :
           /\ Unmatched(allPackages[1].exportMap[k])
           /\ \E m \in (k + 1)..Len(allPackages[1].exportMap) :
                  CallsFor(allPackages[1].exportMap[m].filepath) # {}

\* The first key was dropped and the second gave the one entry of the map.
C25_KeyDropped ==
    /\ pc = "done"
    /\ Generated
    /\ \E rows \in {KeyTable(allPackages[1])} : DroppedKeys(rows) = {1}
    /\ Len(allPackages[1].exportMap) = 1
    /\ Len(mappingCalls) = 1

(***************************************************************************)
(* C26                                                                     *)
(***************************************************************************)
\* The name display names are to be built from: the option packageName when the
\* caller gave it, else the `name` of the package.json.
NameToDisplay(pj) ==
    IF Config.packageName # Undefined THEN Config.packageName ELSE pj.data.name

\* The entry points of the processed packages with the display names built from
\* the name to display.
DisplayedEntries ==
    UNION { { [filepath |-> allPackages[i].entryPoints[k],
               name |-> IF allPackages[i].exportMap = <<>>
                        THEN NameToDisplay(allPackages[i])
                        ELSE PathJoin(NameToDisplay(allPackages[i]),
                                      allPackages[i].exportMap[k].exportPath)]
              : k \in 1..Len(allPackages[i].entryPoints) }
            : i \in 1..Len(allPackages) }

\* C26: every value of dmtModuleNames and every key of dmtModuleReadme is built from
\* the package.json `name`, or from the option packageName when the caller gave it.
C26_PackageNameOverride ==
    Mapping =>
        /\ \A key \in DOMAIN pkgConfig.dmtModuleNames :
               \E e \in DisplayedEntries : pkgConfig.dmtModuleNames[key] = e.name
        /\ \A name \in DOMAIN pkgConfig.dmtModuleReadme :
               \E e \in DisplayedEntries : e.name = name

\* The option is without effect: the names are built from the package.json `name`.
C26_NamesFromPackageJson ==
    Mapping =>
        \A key \in DOMAIN pkgConfig.dmtModuleNames :
            \E i \in 1..Len(allPackages) :
                StartsWith(pkgConfig.dmtModuleNames[key], allPackages[i].data.name)

C26_OverrideGiven ==
    /\ pc = "done"
    /\ Generated
    /\ Config.packageName = S_custom
    /\ DOMAIN pkgConfig.dmtModuleNames # {}

(***************************************************************************)
(* C29                                                                     *)
(***************************************************************************)
\* Packages in the legacy fallback whose `types` is a string that names no existing
\* declaration file.
BadTypesPackages ==
    {i \in LegacyPackages :
        /\ allPackages[i].exportCondition = "types"
        /\ allPackages[i].data.types # Undefined
        /\ ~isDTSFile(allPackages[i].dirpath, files, allPackages[i].data.types)}

\* The warnings of the legacy fallback among the messages of a package.
IsLegacyWarning(m) == m.kind \in {"typesNotDTSFile", "typingsNotDTSFile"}

\* C29: `typings` is consulted only when `types` is not a string: a package whose
\* `types` is a string that is no existing declaration file contributes no entry
\* point and logs the one warning about `types`, nothing about `typings` and nothing
\* but warnings, whatever `typings` names.
C29_TypingsOnlyWithoutTypes ==
    \A i \in BadTypesPackages :
        /\ allPackages[i].entryPoints = <<>>
        /\ SelectSeq(allPackages[i].log, IsLegacyWarning)
               = <<Warning("typesNotDTSFile", Undefined, allPackages[i].data.types)>>
        /\ \A k \in 1..Len(allPackages[i].log) : allPackages[i].log[k].level = "warn"
        /\ \A c \in 1..Len(mappingCalls) :
               \/ allPackages[i].data.typings = Undefined
               \/ mappingCalls[c].filepath
                      # PathResolve(allPackages[i].dirpath, allPackages[i].data.typings)

\* A package whose `types` is no declaration file and whose `typings` names an
\* existing one has been processed, and the invocation has ended.
C29_Witness ==
    \E i \in BadTypesPackages :
        /\ pc = "done"
        /\ allPackages[i].data.typings # Undefined
        /\ isDTSFile(allPackages[i].dirpath, files, allPackages[i].data.typings)
        /\ allPackages[i].entryPoints = <<>>

(***************************************************************************)
(* C27                                                                     *)
(***************************************************************************)
\* validateConfig failed in the block of `monoRepo`.
ScanFailed ==
    \E l \in 1..Len(log) :
        /\ log[l].level = "error"
        /\ log[l].kind \in {"noPackagesFound", "monoRepoNotDirectory"}

\* The package.json files below the one directory the caller gave as `path`.
PackageFilesBelow(dir) ==
    {f \in files : StartsWith(f, dir \o SL) /\ EndsWith(f, S_packagejson)}

\* C27: validateConfig scans the directory for package.json files and replaces `path`
\* by the files found only when `monoRepo` is true; with `monoRepo` false or left out
\* `path` stays as the caller gave it and the validation does not fail in the scan.
C27_ScanOnlyWhenMonoRepo ==
    pc # "config" =>
        /\ Config.monoRepo # <<TRUE>> =>
               /\ configCopy.path = Config.path
               /\ ~ScanFailed
        /\ (Config.monoRepo = <<TRUE>> /\ ~ScanFailed) =>
               /\ {configCopy.path[i] : i \in 1..Len(configCopy.path)}
                      = PackageFilesBelow(Config.path[1])
               /\ Len(configCopy.path) = Cardinality(PackageFilesBelow(Config.path[1]))

\* With `monoRepo` false the scan ran: `path` holds the package.json files found and
\* the documentation of both packages was generated.
C27_ScannedWhenFalse ==
    /\ pc = "done"
    /\ Config.monoRepo = <<FALSE>>
    /\ Config.path = <<Root>>
    /\ Len(configCopy.path) = 2
    /\ Generated

\* With `monoRepo` left out `path` stays as given; with `monoRepo` true it holds the
\* files found.
C27_HoldsOtherwise ==
    pc # "config" =>
        /\ Config.monoRepo = Undefined => configCopy.path = Config.path /\ ~ScanFailed
        /\ (Config.monoRepo = <<TRUE>> /\ ~ScanFailed) =>
               {configCopy.path[i] : i \in 1..Len(configCopy.path)}
                   = PackageFilesBelow(Config.path[1])

(***************************************************************************)
(* C28                                                                     *)
(***************************************************************************)
\* The `out` the caller configured for TypeDoc: that of typedocOptions, else that of
\* the typedoc.json file.
ConfiguredOut ==
    IF Config.typedocOptions # Undefined /\ Config.typedocOptions.out # Undefined
    THEN Config.typedocOptions.out
    ELSE IF Config.typedocPath = PathResolve(Root, T_typedocOut) THEN S_api
    ELSE Undefined

\* The `out` TypeDoc is to get: the caller's `output` when given, else the `out`
\* configured for TypeDoc, else "docs".
ExpectedOut ==
    IF Config.output # Undefined THEN Config.output
    ELSE IF ConfiguredOut # Undefined THEN ConfiguredOut
    ELSE S_docs

\* C28: in the options handed to TypeDoc `out` is the caller's `output` when the
\* caller configured one; without it a configured TypeDoc `out` is kept, and "docs"
\* is used when neither is configured.
C28_OutOverriddenOnlyByOutput ==
    (pc = "done" /\ Generated) => optionsDoc[Len(optionsDoc)].out = ExpectedOut

\* Without `output` a configured TypeDoc `out` was replaced by "docs".
C28_OutReplacedByDefault ==
    /\ pc = "done"
    /\ Generated
    /\ Config.output = Undefined
    /\ ConfiguredOut \notin {Undefined, S_docs}
    /\ optionsDoc[Len(optionsDoc)].out = S_docs

\* With an `output` given, or without any TypeDoc `out`, the options are as claimed.
C28_HoldsWithOutput ==
    (pc = "done" /\ Generated /\ (Config.output # Undefined \/ ConfiguredOut = Undefined))
        => optionsDoc[Len(optionsDoc)].out = ExpectedOut

(***************************************************************************)
(* C30                                                                     *)
(***************************************************************************)
\* C30: generateDocs never assigns to a top-level property of a config of the caller:
\* the defaults, the expansion of `path` for a mono-repo and the plugins of
\* `linkPlugins` go to the shallow copy, and the objects the caller passed keep their
\* values through every step.
C30_CallerConfigUntouched == [][configs' = configs]_vars

\* An invocation has ended whose copy got the default `output`, the package.json files
\* of the mono-repo as `path` and the plugins of `linkPlugins`, while the config of
\* the caller holds what the caller gave.
C30_Witness ==
    /\ pc = "done"
    /\ Generated
    /\ Config.monoRepo = <<TRUE>>
    /\ Config.output = Undefined
    /\ Config.linkPlugins = <<S_es>>
    /\ Config.path = <<Root>>
    /\ configCopy.output = S_docs
    /\ configCopy.path = <<PathResolve(DirA, T_packagejson), PathResolve(DirB, T_packagejson)>>
    /\ configCopy.linkPlugins = <<linkPluginMap(S_es)>>
    /\ configCopy.linkChecker = <<FALSE>>
====
